---- MODULE Spec2Model ----
(***************************************************************************)
(* State-machine model of the IoTex core: the bounded command queue, the   *)
(* retry policy, the MQTT client wrapper, the device-state merge and the   *)
(* two state stores (in-memory map and JSON file).                         *)
(*                                                                         *)
(* Every component has its own specification (SpecQueue, SpecRetry, ...)   *)
(* over the shared variable tuple; the variables of the other components  *)
(* stay at their initial values.                                           *)
(***************************************************************************)
EXTENDS Integers, Sequences, FiniteSets, TLC

(***************************************************************************)
(* Bounds of the model.                                                    *)
(***************************************************************************)
MaxCapacity == 3      \* largest queue capacity tried
MaxQueueOps == 7      \* length of the recorded queue call history
MaxItem     == 2      \* queued commands are drawn from 1..MaxItem
MaxRetries  == 5      \* largest retry count tried
MaxSessions == 2      \* native MQTT clients one wrapper may create
MaxDrops    == 2      \* transport drops and connection errors per run
MaxSubCalls == 2      \* subscribe calls (one handler each) per run
MaxDisconnects == 2   \* disconnect calls that reach the native client
MaxBrokerCalls == 4   \* start() and stop() calls made on one embedded broker
MaxStoreCalls == 3    \* set and patch calls made on one in-memory store
MaxDrainCmds == 3     \* commands enqueued for one drain loop
MaxDrainRetries == 2  \* opts.retries of the withRetry of the drain loop
MaxJsonCalls == 2     \* set and patch calls made on one JSON store

(***************************************************************************)
(* JavaScript numbers handed in as configuration.  A finite number is kept *)
(* in half units (v = 2 * value) so that a non-integer such as 1.5 can be  *)
(* told from an integer; NaN and the infinities are separate kinds.        *)
(***************************************************************************)
Fin(halves) == [k |-> "fin", v |-> halves]
Int2Num(n)  == Fin(2 * n)
NaN         == [k |-> "nan", v |-> 0]
PosInf      == [k |-> "inf", v |-> 1]
NegInf      == [k |-> "inf", v |-> -1]

IsInteger(n) == n.k = "fin" /\ n.v % 2 = 0
IsFinite(n)  == n.k = "fin"
\* n <= 0 as JavaScript evaluates it (false for NaN)
LeqZero(n)   == \/ n.k = "fin" /\ n.v <= 0
                \/ n.k = "inf" /\ n.v < 0
\* n < 0 as JavaScript evaluates it (false for NaN)
LtZero(n)    == \/ n.k = "fin" /\ n.v < 0
                \/ n.k = "inf" /\ n.v < 0
\* the integer value of a number for which IsInteger holds
IntOf(n)     == n.v \div 2

Undefined == 0        \* the JavaScript value undefined, where items are 1..

VARIABLES
    qState,     \* "none" | "ready" | "error": has createCommandQueue returned a queue
    qMaxSize,   \* maxSize captured by the closure
    queue,      \* the closure's array
    qTrace      \* history of the calls made on the queue, with their results

queueVars == <<qState, qMaxSize, queue, qTrace>>

VARIABLES
    rPc,        \* "idle" | "opPending" | "sleeping" | "resolved" | "rejected"
    rOpts,      \* the options withRetry was called with, defaults applied
    rFirstOk,   \* the op under test: index of its first successful invocation
    rAttempt,   \* executeWithRetry's loop variable
    rInFlight,  \* invocations of op that have not settled yet
    rCalls,     \* invocations of op so far
    rLastError, \* executeWithRetry's lastError
    rOutcome,   \* how the promise returned by withRetry settled
    rSleepMs,   \* delay of the pending setTimeout
    rTrace      \* history of the events of the call

VARIABLES
    mCurrent,     \* clientRef.current: a native client, or 0 for null
    nState,       \* per native client: its connection state
    nOnceConnect, \* per native client: is the once('connect') listener armed
    nOnceError,   \* per native client: is the once('error') listener armed
    cPromise,     \* per native client: the promise of the connect() that made it
    mTable,       \* config.subscriptions, a Map in insertion order
    mPendingSubs, \* native subscribes of subscribe() awaiting their callback
    mPendingEnds, \* per native client: end() callbacks not yet called
    mSubCalls,    \* subscribe calls so far; the handler of call n is n
    mDrops,       \* transport drops and errors so far
    mEnds,        \* native end() calls so far
    mAcked,       \* topics acknowledged since the last completed disconnect
    mLast         \* the last event: what it was and what it did

mqttVars == <<mCurrent, nState, nOnceConnect, nOnceError, cPromise, mTable,
              mPendingSubs, mPendingEnds, mSubCalls, mDrops, mEnds, mAcked,
              mLast>>

retryVars == <<rPc, rOpts, rFirstOk, rAttempt, rInFlight, rCalls, rLastError,
               rOutcome, rSleepMs, rTrace>>

VARIABLES
    heap,       \* the objects allocated so far; a reference is an index
    mgPrev,     \* mergeDeviceState: the argument prev
    mgPatch,    \* mergeDeviceState: the argument patch
    mgPc,       \* "idle" | "returned" | "threw"
    mgResult,   \* what mergeDeviceState returned
    mgGiven     \* the contents of the heap when mergeDeviceState was called

mergeVars == <<heap, mgPrev, mgPatch, mgPc, mgResult, mgGiven>>

VARIABLES
    stKind,     \* "none" | "memory" | "json": the store implementation in use
    stData,     \* the Map of the in-memory store / the mirror `data` of the JSON store
    stCalls,    \* the set and patch calls made so far, with their progress
    stApplied,  \* the calls that have changed stData, in the order they did
    stPatched,  \* per key: what the last patch returned, until the key is changed
    stLast,     \* the last call that ran its synchronous part, and its result
    jAtomic,    \* JsonStoreOptions.atomic
    jInit,      \* initPromise: "none" | "loading" | "ready" | "failed"
    jFile,      \* the backing file: its state and the document in it
    jWaiting    \* the calls awaiting initPromise, in call order

storeVars == <<stKind, stData, stCalls, stApplied, stPatched, stLast,
               jAtomic, jInit, jFile, jWaiting>>

VARIABLES
    adapters,   \* the Map of the registry: its entries in insertion order
    regBound,   \* per name: the adapter of the first register that succeeded
    regLast     \* the last call on the registry, its result and the Map before it

registryVars == <<adapters, regBound, regLast>>

VARIABLES
    dQueue,     \* the array of the queue that the loop drains
    dPc,        \* the loop: "loop" | "attempt" | "sleep" | "done"
    dRetries,   \* opts.retries of the withRetry around each execution
    dCmd,       \* the command being executed
    dAttempt,   \* the attempt of withRetry under way for it
    dTrace      \* the enqueues, and the starts and ends of the attempts, in order

drainVars == <<dQueue, dPc, dRetries, dCmd, dAttempt, dTrace>>

VARIABLES
    isStarted,  \* the flag isStarted of the broker's closure
    bState,     \* state: aedesInstance, server (0 for null), actualPort
    bLive,      \* the TCP servers opened by start() that are listening
    bForeign,   \* the ports held by other processes
    bStartPort, \* opts.startPort, or the default
    bCalls,     \* the start() and stop() calls that are awaiting something
    bNextId,    \* start() and stop() calls made so far, plus one
    bTrace      \* history: the calls made and how they settled

brokerVars == <<isStarted, bState, bLive, bForeign, bStartPort, bCalls, bNextId,
               bTrace>>

VARIABLES
    devices,    \* the Map `devices` of the device manager: its values in insertion order
    dmStates,   \* per device id: what stateStore.get(id) resolves with
    dmCalls,    \* number of registerDevice calls and state changes so far
    dmLast,     \* the last call on the device manager and its result
    uriIn,      \* buildDeviceResourceUri: the input object
    uriOut      \* buildDeviceResourceUri: "idle", or what the call gave

deviceVars == <<devices, dmStates, dmCalls, dmLast, uriIn, uriOut>>


VARIABLES
    tpBase,     \* mapTopicToDeviceId: the argument base
    tpTopic,    \* mapTopicToDeviceId: the argument topic
    tpOut,      \* mapTopicToDeviceId: "idle", or what the call gave
    mtPattern,  \* matchTopic: the levels of the argument pattern
    mtTopic,    \* matchTopic: the levels of the argument topic
    mtOut       \* matchTopic: has it been called, and the boolean returned

topicVars == <<tpBase, tpTopic, tpOut, mtPattern, mtTopic, mtOut>>


VARIABLES
    dpTable,        \* listeners: the subscriptions Map the listeners close over
    dpSubscribers,  \* createStateEmitter: the Set of callbacks, in insertion order
    dpLast          \* the last listener or emitter call and what it did

dispatchVars == <<dpTable, dpSubscribers, dpLast>>


vars == <<queueVars, retryVars, mqttVars, mergeVars, storeVars, registryVars, drainVars, brokerVars, deviceVars, topicVars, dispatchVars>>

(***************************************************************************)
(* Command queue  (src/core/command-queue.ts)                              *)
(***************************************************************************)
QueueSizeInputs ==
    {Int2Num(n) : n \in -1..MaxCapacity} \cup {Fin(3), NaN, PosInf}

Items == 1..MaxItem

\* the constructor's guard: !Number.isInteger(maxSize) || maxSize <= 0
InvalidMaxSize(maxSize) == ~IsInteger(maxSize) \/ LeqZero(maxSize)

\* enqueue's guard: queue.length >= maxSize
QueueIsFull_Off(q, maxSize) == Len(q) > maxSize
QueueIsFull(q, maxSize) == Len(q) >= maxSize

\* Array.prototype.shift: the removed first element, undefined when empty
ShiftResult_Pop(q) == IF q = <<>> THEN Undefined ELSE q[Len(q)]
ShiftResult(q) == IF q = <<>> THEN Undefined ELSE Head(q)

ShiftRest_Pop(q) == IF q = <<>> THEN q ELSE SubSeq(q, 1, Len(q) - 1)
ShiftRest(q) == IF q = <<>> THEN q ELSE Tail(q)

\* enqueue on a full queue: the throw comes before queue.push, so the array
\* is left as it was
QueueAfterThrow_Evict(q, cmd) == Tail(q) \o <<cmd>>
QueueAfterThrow(q, cmd) == q

QInit ==
    /\ qState = "none"
    /\ qMaxSize = 0
    /\ queue = <<>>
    /\ qTrace = <<>>

CreateCommandQueue(maxSize) ==
    /\ qState = "none"
    /\ IF InvalidMaxSize(maxSize)
         THEN /\ qState' = "error"
              /\ UNCHANGED <<qMaxSize, queue, qTrace>>
         ELSE /\ qState' = "ready"
              /\ qMaxSize' = IntOf(maxSize)
              /\ queue' = <<>>
              /\ UNCHANGED qTrace

Enqueue(cmd) ==
    /\ qState = "ready"
    /\ Len(qTrace) < MaxQueueOps
    /\ IF QueueIsFull(queue, qMaxSize)
         THEN /\ qTrace' = Append(qTrace,
                    [op |-> "enqueue", arg |-> cmd, ok |-> FALSE,
                     ret |-> Undefined, before |-> queue])
              /\ queue' = QueueAfterThrow(queue, cmd)
         ELSE /\ queue' = Append(queue, cmd)
              /\ qTrace' = Append(qTrace,
                    [op |-> "enqueue", arg |-> cmd, ok |-> TRUE,
                     ret |-> Len(queue) + 1, before |-> queue])
    /\ UNCHANGED <<qState, qMaxSize>>

Dequeue ==
    /\ qState = "ready"
    /\ Len(qTrace) < MaxQueueOps
    /\ queue' = ShiftRest(queue)
    /\ qTrace' = Append(qTrace,
          [op |-> "dequeue", arg |-> Undefined, ok |-> TRUE,
           ret |-> ShiftResult(queue), before |-> queue])
    /\ UNCHANGED <<qState, qMaxSize>>

Size ==
    /\ qState = "ready"
    /\ Len(qTrace) < MaxQueueOps
    /\ qTrace' = Append(qTrace,
          [op |-> "size", arg |-> Undefined, ok |-> TRUE,
           ret |-> Len(queue), before |-> queue])
    /\ UNCHANGED <<qState, qMaxSize, queue>>

QueueNext ==
    \/ \E m \in QueueSizeInputs : CreateCommandQueue(m)
    \/ \E c \in Items : Enqueue(c)
    \/ Dequeue
    \/ Size

(***************************************************************************)
(* Claims about the command queue.                                         *)
(***************************************************************************)
IsEnq(e)    == e.op = "enqueue"
IsEnqOk(e)  == e.op = "enqueue" /\ e.ok
IsDeqHit(e) == e.op = "dequeue" /\ e.ret # Undefined

RECURSIVE MapArg(_)
MapArg(s) == IF s = <<>> THEN <<>> ELSE <<Head(s).arg>> \o MapArg(Tail(s))
RECURSIVE MapRet(_)
MapRet(s) == IF s = <<>> THEN <<>> ELSE <<Head(s).ret>> \o MapRet(Tail(s))

\* the successfully enqueued items and the dequeued items, in call order
EnqueuedItems == MapArg(SelectSeq(qTrace, IsEnqOk))
DequeuedItems == MapRet(SelectSeq(qTrace, IsDeqHit))

\* C1: with capacity n, enqueue succeeds exactly when size() < n: n enqueues
\* in a row on an empty queue succeed and the next one fails, size() never
\* exceeds n, and after one dequeue from a full queue exactly one more
\* enqueue succeeds before the next one fails.
QueueCapacityHolds ==
    qState = "ready" =>
      /\ qMaxSize >= 1
      /\ Len(queue) <= qMaxSize
      /\ \A i \in 1..Len(qTrace) :
           /\ IsEnq(qTrace[i]) =>
                /\ qTrace[i].ok <=> Len(qTrace[i].before) < qMaxSize
                /\ qTrace[i].ok => qTrace[i].ret = Len(qTrace[i].before) + 1
           /\ qTrace[i].op = "size" => qTrace[i].ret <= qMaxSize
      \* n consecutive enqueues from empty succeed, the (n+1)-th fails
      /\ \A i \in 1..Len(qTrace) :
           (/\ qTrace[i].before = <<>>
            /\ i + qMaxSize <= Len(qTrace)
            /\ \A j \in i..(i + qMaxSize) : IsEnq(qTrace[j]))
           => /\ \A j \in i..(i + qMaxSize - 1) : qTrace[j].ok
              /\ ~qTrace[i + qMaxSize].ok
      \* one dequeue from a full queue makes room for exactly one enqueue
      /\ \A i \in 1..Len(qTrace) :
           (/\ qTrace[i].op = "dequeue"
            /\ Len(qTrace[i].before) = qMaxSize
            /\ i + 2 <= Len(qTrace)
            /\ IsEnq(qTrace[i + 1]) /\ IsEnq(qTrace[i + 2]))
           => qTrace[i + 1].ok /\ ~qTrace[i + 2].ok

\* a queue of capacity >= 2 was filled from empty, refused one enqueue, then
\* after one dequeue accepted one enqueue and refused the next
QueueCapacityWitness ==
    /\ qState = "ready"
    /\ qMaxSize >= 2
    /\ \E i \in 1..Len(qTrace) :
         /\ i + 2 <= Len(qTrace)
         /\ i > qMaxSize
         /\ qTrace[i].op = "dequeue" /\ Len(qTrace[i].before) = qMaxSize
         /\ IsEnq(qTrace[i + 1]) /\ qTrace[i + 1].ok
         /\ IsEnq(qTrace[i + 2]) /\ ~qTrace[i + 2].ok
         /\ IsEnq(qTrace[i - 1]) /\ ~qTrace[i - 1].ok

\* C2: dequeue returns the items in exactly the order of their successful
\* enqueue: the k-th item returned is the k-th item accepted, and the items
\* accepted are the items returned followed by the items still queued.
QueueFifoOrder ==
    qState = "ready" =>
      /\ Len(DequeuedItems) <= Len(EnqueuedItems)
      /\ \A k \in 1..Len(DequeuedItems) : DequeuedItems[k] = EnqueuedItems[k]
      /\ EnqueuedItems = DequeuedItems \o queue

\* two different items were returned, with an enqueue between the dequeues
QueueFifoWitness ==
    /\ qState = "ready"
    /\ \E i, j, k \in 1..Len(qTrace) :
         /\ i < j /\ j < k
         /\ IsDeqHit(qTrace[i]) /\ IsEnqOk(qTrace[j]) /\ IsDeqHit(qTrace[k])
         /\ qTrace[i].ret # qTrace[k].ret
         /\ Len(qTrace[i].before) >= 2

\* a call that was refused: an enqueue that threw, a dequeue that found the
\* queue empty
IsRefused(e) ==
    \/ e.op = "enqueue" /\ ~e.ok
    \/ e.op = "dequeue" /\ e.before = <<>>

IsNotRefused(e) == ~IsRefused(e)

\* the contents of the queue right after the i-th recorded call
QueueAfterCall(i) == IF i = Len(qTrace) THEN queue ELSE qTrace[i + 1].before

\* the contents of a queue on which the accepted calls of s are made in order
RECURSIVE ContentsAfter(_)
ContentsAfter(s) ==
    IF s = <<>> THEN <<>>
    ELSE LET e == s[Len(s)]
             q == ContentsAfter(SubSeq(s, 1, Len(s) - 1))
         IN  IF e.op = "enqueue" THEN Append(q, e.arg)
             ELSE IF e.op = "dequeue" THEN Tail(q)
             ELSE q

\* C18: a refused queue operation has no effect: enqueue on a full queue
\* throws in the call itself and stores nothing and evicts nothing, dequeue on
\* an empty queue returns undefined without throwing; the contents and size()
\* right after the call are those before it, and every call sees the contents
\* that the accepted calls before it alone would have produced.
QueueRefusedCallHasNoEffect ==
    qState = "ready" =>
      /\ \A i \in 1..Len(qTrace) :
           /\ (IsEnq(qTrace[i]) /\ Len(qTrace[i].before) >= qMaxSize) =>
                /\ ~qTrace[i].ok
                /\ QueueAfterCall(i) = qTrace[i].before
           /\ (qTrace[i].op = "dequeue" /\ qTrace[i].before = <<>>) =>
                /\ qTrace[i].ok
                /\ qTrace[i].ret = Undefined
                /\ QueueAfterCall(i) = <<>>
           /\ (IsRefused(qTrace[i]) /\ i < Len(qTrace)
                 /\ qTrace[i + 1].op = "size") =>
                qTrace[i + 1].ret = Len(qTrace[i].before)
           /\ qTrace[i].before =
                ContentsAfter(SelectSeq(SubSeq(qTrace, 1, i - 1), IsNotRefused))
      /\ queue = ContentsAfter(SelectSeq(qTrace, IsNotRefused))

\* an enqueue was refused on a full queue and a dequeue on an empty one, each
\* followed by size() and by accepted calls
QueueRefusedWitness ==
    /\ qState = "ready"
    /\ \E i, j \in 1..Len(qTrace) :
         /\ i + 2 <= Len(qTrace) /\ j + 2 <= Len(qTrace)
         /\ IsEnq(qTrace[i]) /\ ~qTrace[i].ok
         /\ qTrace[i + 1].op = "size"
         /\ IsDeqHit(qTrace[i + 2])
         /\ qTrace[j].op = "dequeue" /\ qTrace[j].before = <<>>
         /\ qTrace[j + 1].op = "size"
         /\ IsEnqOk(qTrace[j + 2])

(***************************************************************************)
(* Retry policy  (infrastructure/retry-policy.ts)                          *)
(***************************************************************************)
EXPONENTIAL_BASE  == 2
JITTER_MIN_MILLI  == 800     \* JITTER_MIN_FACTOR = 0.8, in thousandths
JITTER_RANGE_MILLI == 400    \* JITTER_RANGE = 0.4, in thousandths

\* Math.random() in thousandths: a value of [0, 1)
RandomSamples == {0, 999}

RetriesInputs == {Int2Num(n) : n \in -1..MaxRetries} \cup {Fin(3), NaN}
BaseMsInputs  == {Int2Num(100), Int2Num(250), Fin(201), Int2Num(0), PosInf}
MaxMsInputs   == {Int2Num(300), Fin(501), Int2Num(-1), NaN}
OnRetryInputs == {"none", "returns", "throws"}

\* the k-th invocation of op settles with a value or an error of its own
ValOf(k) == [kind |-> "value", of |-> k]
ErrOf(k) == [kind |-> "error", of |-> k]
RangeErr(m) == [kind |-> "RangeError", of |-> m]
NoValue  == [kind |-> "none", of |-> 0]

\* validateRetryParams without the check of maxMs
ValidateRetryParams_NoMaxMs(retries, baseMs, maxMs) ==
    IF LtZero(retries) \/ ~IsInteger(retries)
      THEN "retries must be a non-negative integer"
    ELSE IF LeqZero(baseMs) \/ ~IsFinite(baseMs)
      THEN "baseMs must be a positive finite number"
    ELSE ""

\* validateRetryParams: the message of the RangeError thrown, or "" if valid
ValidateRetryParams(retries, baseMs, maxMs) ==
    IF LtZero(retries) \/ ~IsInteger(retries)
      THEN "retries must be a non-negative integer"
    ELSE IF LeqZero(baseMs) \/ ~IsFinite(baseMs)
      THEN "baseMs must be a positive finite number"
    ELSE IF LeqZero(maxMs) \/ ~IsFinite(maxMs)
      THEN "maxMs must be a positive finite number"
    ELSE ""

\* const maxAttempts = retries + 1
MaxAttempts_NoInitial(retries) == IntOf(retries)
MaxAttempts(retries) == IntOf(retries) + 1

\* executeSingleAttempt: config.attempt === config.maxAttempts
IsLastAttempt_Never(attempt, maxAttempts) == attempt > maxAttempts
IsLastAttempt(attempt, maxAttempts) == attempt = maxAttempts

RECURSIVE Pow(_, _)
Pow(b, e) == IF e <= 0 THEN 1 ELSE b * Pow(b, e - 1)

Min(a, b) == IF a <= b THEN a ELSE b

\* calculateDelay without the Math.min
CalculateDelay_NoCap(attempt, baseMs, maxMs, jitter, random) ==
    LET exponentialDelay == baseMs.v * Pow(EXPONENTIAL_BASE, attempt - 1)
        jitterFactor == JITTER_MIN_MILLI * 1000 + random * JITTER_RANGE_MILLI
    IN  IF jitter
          THEN (exponentialDelay * jitterFactor) \div (2 * 1000000)
          ELSE exponentialDelay \div 2

\* calculateDelay, with baseMs and maxMs in half milliseconds and the value
\* of Math.random() in thousandths; the result is in whole milliseconds
CalculateDelay(attempt, baseMs, maxMs, jitter, random) ==
    LET exponentialDelay == baseMs.v * Pow(EXPONENTIAL_BASE, attempt - 1)
        delay == Min(exponentialDelay, maxMs.v)
        jitterFactor == JITTER_MIN_MILLI * 1000 + random * JITTER_RANGE_MILLI
    IN  IF jitter
          THEN (delay * jitterFactor) \div (2 * 1000000)
          ELSE delay \div 2

\* config.onRetry(error, config.attempt, delayMs): the attempt number passed
OnRetryAttempt_FromZero(attempt) == attempt - 1
OnRetryAttempt(attempt) == attempt

\* try { config.onRetry(...) } catch { }: does an exception of the callback
\* leave executeSingleAttempt
CallbackErrorEscapes_Uncaught(onRetry) == onRetry = "throws"
CallbackErrorEscapes(onRetry) == FALSE

CallbackErr == [kind |-> "callbackError", of |-> 0]

\* does the op's invocation number k succeed
OpSucceeds(k) == k >= rFirstOk

RInit ==
    /\ rPc = "idle"
    /\ rOpts = [retries |-> Int2Num(0), baseMs |-> Int2Num(0),
                maxMs |-> Int2Num(0), jitter |-> FALSE, onRetry |-> "none"]
    /\ rFirstOk = 0
    /\ rAttempt = 0
    /\ rInFlight = 0
    /\ rCalls = 0
    /\ rLastError = NoValue
    /\ rOutcome = NoValue
    /\ rSleepMs = 0
    /\ rTrace = <<>>

\* withRetry(op, opts) up to its first await: validation, then the first
\* pass through the loop of executeWithRetry, which invokes op
WithRetry(retries, baseMs, maxMs, jitter, onRetry, firstOk) ==
    /\ rPc = "idle"
    /\ rOpts' = [retries |-> retries, baseMs |-> baseMs, maxMs |-> maxMs,
                 jitter |-> jitter, onRetry |-> onRetry]
    /\ rFirstOk' = firstOk
    /\ IF ValidateRetryParams(retries, baseMs, maxMs) # ""
         THEN /\ rPc' = "rejected"
              /\ rOutcome' = RangeErr(ValidateRetryParams(retries, baseMs, maxMs))
              /\ UNCHANGED <<rAttempt, rInFlight, rCalls, rLastError,
                             rSleepMs, rTrace>>
         ELSE /\ rPc' = "opPending"
              /\ rAttempt' = 1
              /\ rInFlight' = rInFlight + 1
              /\ rCalls' = rCalls + 1
              /\ rTrace' = Append(rTrace,
                    [ev |-> "invoke", n |-> 1, err |-> NoValue, ms |-> 0])
              /\ UNCHANGED <<rLastError, rOutcome, rSleepMs>>

\* op's promise fulfils: executeSingleAttempt returns success and the loop
\* returns the value
OpResolves ==
    /\ rPc = "opPending"
    /\ OpSucceeds(rCalls)
    /\ rInFlight' = rInFlight - 1
    /\ rPc' = "resolved"
    /\ rOutcome' = ValOf(rCalls)
    /\ rTrace' = Append(rTrace,
          [ev |-> "ok", n |-> rAttempt, err |-> NoValue, ms |-> 0])
    /\ UNCHANGED <<rOpts, rFirstOk, rAttempt, rCalls, rLastError, rSleepMs>>

\* op's promise rejects (or op throws): the catch block of
\* executeSingleAttempt
OpRejects(random) ==
    /\ rPc = "opPending"
    /\ ~OpSucceeds(rCalls)
    /\ rInFlight' = rInFlight - 1
    /\ LET error == ErrOf(rCalls)
           failed == [ev |-> "fail", n |-> rAttempt, err |-> error, ms |-> 0]
           delayMs == CalculateDelay(rAttempt, rOpts.baseMs, rOpts.maxMs,
                                     rOpts.jitter, random)
           called == [ev |-> "onRetry", n |-> OnRetryAttempt(rAttempt),
                      err |-> error, ms |-> delayMs]
           asleep == [ev |-> "sleepStart", n |-> rAttempt, err |-> NoValue,
                      ms |-> delayMs]
       IN  IF IsLastAttempt(rAttempt, MaxAttempts(rOpts.retries))
             THEN \* returned to the loop, which ends and throws lastError
                  /\ rLastError' = error
                  /\ rOutcome' = error
                  /\ rPc' = "rejected"
                  /\ rTrace' = Append(rTrace, failed)
                  /\ UNCHANGED rSleepMs
           ELSE IF CallbackErrorEscapes(rOpts.onRetry)
             THEN \* the exception of the callback rejects the whole call
                  /\ rOutcome' = CallbackErr
                  /\ rPc' = "rejected"
                  /\ rTrace' = rTrace \o <<failed, called>>
                  /\ UNCHANGED <<rLastError, rSleepMs>>
             ELSE /\ rSleepMs' = delayMs
                  /\ rPc' = "sleeping"
                  /\ rTrace' = rTrace \o <<failed>>
                        \o (IF rOpts.onRetry # "none" THEN <<called>> ELSE <<>>)
                        \o <<asleep>>
                  /\ UNCHANGED <<rLastError, rOutcome>>
    /\ UNCHANGED <<rOpts, rFirstOk, rAttempt, rCalls>>

\* the timer of sleep() fires: executeSingleAttempt returns the failure, the
\* loop records it and either starts the next attempt or ends and throws
SleepElapses ==
    /\ rPc = "sleeping"
    /\ LET error == ErrOf(rCalls)
           woken == [ev |-> "sleepEnd", n |-> rAttempt, err |-> NoValue,
                     ms |-> rSleepMs]
       IN  /\ rLastError' = error
           /\ rAttempt' = rAttempt + 1
           /\ IF rAttempt + 1 <= MaxAttempts(rOpts.retries)
                THEN /\ rPc' = "opPending"
                     /\ rInFlight' = rInFlight + 1
                     /\ rCalls' = rCalls + 1
                     /\ rTrace' = rTrace \o <<woken,
                           [ev |-> "invoke", n |-> rAttempt + 1,
                            err |-> NoValue, ms |-> 0]>>
                     /\ UNCHANGED rOutcome
                ELSE /\ rPc' = "rejected"
                     /\ rOutcome' = error
                     /\ rTrace' = Append(rTrace, woken)
                     /\ UNCHANGED <<rInFlight, rCalls>>
    /\ rSleepMs' = 0
    /\ UNCHANGED <<rOpts, rFirstOk>>

RetryNext ==
    \/ \E retries \in RetriesInputs, baseMs \in BaseMsInputs,
          maxMs \in MaxMsInputs, jitter \in BOOLEAN,
          onRetry \in OnRetryInputs, firstOk \in 1..(MaxRetries + 2) :
            WithRetry(retries, baseMs, maxMs, jitter, onRetry, firstOk)
    \/ OpResolves
    \/ \E random \in RandomSamples : OpRejects(random)
    \/ SleepElapses

(***************************************************************************)
(* Claims about the retry policy.                                          *)
(***************************************************************************)
IsInvoke(e) == e.ev = "invoke"
\* the call passed validation and has settled
RetrySettled == rPc \in {"resolved", "rejected"} /\ rOutcome.kind # "RangeError"
\* the call passed validation
RetryRunning == rPc # "idle" /\ rOutcome.kind # "RangeError"

\* C3: with valid options op is invoked exactly min(k, r + 1) times, k being
\* the index of its first successful invocation; if k <= r + 1 the call
\* resolves with that invocation's value, otherwise it rejects with the very
\* error of invocation r + 1; with r = 0 there is exactly one attempt.
RetryAttemptCount ==
    /\ RetryRunning =>
         /\ rCalls = Len(SelectSeq(rTrace, IsInvoke))
         /\ rCalls <= Min(rFirstOk, IntOf(rOpts.retries) + 1)
    /\ RetrySettled =>
         LET r == IntOf(rOpts.retries)
             k == rFirstOk
         IN  /\ Len(SelectSeq(rTrace, IsInvoke)) = Min(k, r + 1)
             /\ k <= r + 1 => rPc = "resolved" /\ rOutcome = ValOf(k)
             /\ k > r + 1 => rPc = "rejected" /\ rOutcome = ErrOf(r + 1)
             /\ r = 0 => rCalls = 1

\* an op that never succeeds exhausted two or more retries
RetryAttemptCountWitness ==
    /\ RetrySettled
    /\ rPc = "rejected"
    /\ IntOf(rOpts.retries) >= 2
    /\ rCalls = IntOf(rOpts.retries) + 1
    /\ rOutcome = ErrOf(rCalls)

\* C4: at most one invocation of op is in flight; attempt k + 1 starts only
\* after attempt k has rejected and the sleep computed for attempt k has
\* elapsed; no sleep follows a successful attempt or the final failed one.
RetrySequential ==
    RetryRunning =>
      LET maxAttempts == IntOf(rOpts.retries) + 1
          n == Len(rTrace)
      IN
      /\ rInFlight \in {0, 1}
      /\ rInFlight = 1 <=> rPc = "opPending"
      /\ \A i \in 1..n :
           LET e == rTrace[i] IN
           \* an attempt after the first directly follows the end of the
           \* sleep of the attempt before it
           /\ (e.ev = "invoke" /\ e.n = 1) => i = 1
           /\ (e.ev = "invoke" /\ e.n > 1) =>
                /\ i > 1
                /\ rTrace[i - 1].ev = "sleepEnd"
                /\ rTrace[i - 1].n = e.n - 1
           \* a sleep ends only after it was started, with the same delay
           /\ e.ev = "sleepEnd" =>
                /\ i > 1
                /\ rTrace[i - 1].ev = "sleepStart"
                /\ rTrace[i - 1].n = e.n
                /\ rTrace[i - 1].ms = e.ms
           \* a sleep starts only after the failure of its attempt, and
           \* never after the final attempt
           /\ e.ev = "sleepStart" =>
                /\ e.n < maxAttempts
                /\ \E j \in 1..(i - 1) :
                     /\ rTrace[j].ev = "fail" /\ rTrace[j].n = e.n
                     /\ \A h \in (j + 1)..(i - 1) : rTrace[h].ev = "onRetry"
           \* every attempt settles before anything else happens
           /\ (e.ev = "invoke" /\ i < n) =>
                rTrace[i + 1].ev \in {"ok", "fail"} /\ rTrace[i + 1].n = e.n
           \* nothing follows a success or the final failure
           /\ e.ev = "ok" => i = n
           /\ (e.ev = "fail" /\ e.n = maxAttempts) => i = n
           /\ (e.ev = "fail" /\ e.n < maxAttempts) => i < n

\* the third attempt succeeded after two failures, each followed by its sleep
RetrySequentialWitness ==
    /\ RetrySettled
    /\ rPc = "resolved"
    /\ rCalls = 3
    /\ IntOf(rOpts.retries) >= 3
    /\ \E i \in 1..Len(rTrace) : rTrace[i].ev = "sleepEnd" /\ rTrace[i].n = 2

IsSleepStart(e) == e.ev = "sleepStart"
IsOnRetry(e) == e.ev = "onRetry"
IsDelay(e) == e.ev \in {"onRetry", "sleepStart"}

\* min(baseMs * 2^(k-1), maxMs), in half milliseconds
CappedBackoff(k) == Min(rOpts.baseMs.v * Pow(2, k - 1), rOpts.maxMs.v)

\* the delay is reported to onRetry and slept as one value
SameDelayReportedAndSlept ==
    \A i \in 1..Len(rTrace) :
        rTrace[i].ev = "onRetry" =>
            /\ i < Len(rTrace)
            /\ rTrace[i + 1].ev = "sleepStart"
            /\ rTrace[i + 1].n = rTrace[i].n
            /\ rTrace[i + 1].ms = rTrace[i].ms

\* baseMs = 100, maxMs = 300, retries = 5, jitter off
IsBackoffExample ==
    /\ rOpts.baseMs = Int2Num(100) /\ rOpts.maxMs = Int2Num(300)
    /\ rOpts.retries = Int2Num(5) /\ ~rOpts.jitter

BackoffExampleDelays == <<100, 200, 300, 300, 300>>

BackoffExampleHolds ==
    IsBackoffExample =>
        LET slept == SelectSeq(rTrace, IsSleepStart)
        IN  \A i \in 1..Len(slept) : slept[i].ms = BackoffExampleDelays[i]

\* C13 as stated: with jitter off the delay after the k-th failed attempt is
\* min(baseMs * 2^(k-1), maxMs), the value both reported to onRetry and slept;
\* for baseMs = 100, maxMs = 300, retries = 5 the delays are 100, 200, 300,
\* 300, 300.
RetryDelayIsCappedBackoff ==
    (RetryRunning /\ ~rOpts.jitter) =>
        /\ \A i \in 1..Len(rTrace) :
              IsDelay(rTrace[i]) => 2 * rTrace[i].ms = CappedBackoff(rTrace[i].n)
        /\ SameDelayReportedAndSlept
        /\ BackoffExampleHolds

\* C13: with jitter off the delay after the k-th failed attempt is
\* min(baseMs * 2^(k-1), maxMs) rounded down to a whole number of
\* milliseconds, hence that minimum itself when baseMs and maxMs are integers;
\* the one value is both reported to onRetry and slept; for baseMs = 100,
\* maxMs = 300, retries = 5 the delays are 100, 200, 300, 300, 300.
RetryDelayIsFlooredCappedBackoff ==
    (RetryRunning /\ ~rOpts.jitter) =>
        /\ \A i \in 1..Len(rTrace) :
              IsDelay(rTrace[i]) =>
                 /\ 2 * rTrace[i].ms <= CappedBackoff(rTrace[i].n)
                 /\ CappedBackoff(rTrace[i].n) < 2 * rTrace[i].ms + 2
                 /\ (IsInteger(rOpts.baseMs) /\ IsInteger(rOpts.maxMs))
                       => 2 * rTrace[i].ms = CappedBackoff(rTrace[i].n)
        /\ SameDelayReportedAndSlept
        /\ BackoffExampleHolds

\* the example ran to exhaustion with a callback: five delays were reported
RetryDelayWitness ==
    /\ IsBackoffExample
    /\ rOpts.onRetry = "returns"
    /\ rPc = "rejected"
    /\ Len(SelectSeq(rTrace, IsOnRetry)) = 5
    /\ Len(SelectSeq(rTrace, IsSleepStart)) = 5

\* C14 as stated: every delay that withRetry computes, reports to onRetry and
\* sleeps for is at most maxMs, with jitter on or off.
RetryDelayWithinMax ==
    RetryRunning =>
        \A i \in 1..Len(rTrace) :
            IsDelay(rTrace[i]) => 2 * rTrace[i].ms <= rOpts.maxMs.v

\* C15: a supplied onRetry is called exactly once after each failed attempt
\* but the last: right after the failure and right before the sleep, with
\* the error of that attempt, its number counted from 1, and the delay that
\* is then slept; it is not called after a success nor after the last
\* failure, so an op that always fails gets retries calls, numbered 1, 2, ...
\* in order; without onRetry nothing is called.
RetryCallbackPerRetry ==
    RetryRunning =>
      LET maxAttempts == IntOf(rOpts.retries) + 1
          n == Len(rTrace)
          calls == SelectSeq(rTrace, IsOnRetry)
      IN
      /\ rOpts.onRetry = "none" => calls = <<>>
      /\ rOpts.onRetry # "none" =>
           /\ \A i \in 1..n :
                LET e == rTrace[i] IN
                /\ (e.ev = "fail" /\ e.n < maxAttempts) =>
                      /\ i + 2 <= n
                      /\ rTrace[i + 1].ev = "onRetry"
                      /\ rTrace[i + 1].n = e.n
                      /\ rTrace[i + 1].err = e.err
                      /\ rTrace[i + 2].ev = "sleepStart"
                      /\ rTrace[i + 2].ms = rTrace[i + 1].ms
                /\ e.ev = "onRetry" =>
                      /\ i > 1
                      /\ rTrace[i - 1].ev = "fail"
                      /\ rTrace[i - 1].n = e.n
                      /\ e.n < maxAttempts
                /\ (e.ev = "fail" /\ e.n = maxAttempts) => i = n
                /\ e.ev = "ok" => i = n
           /\ \A j \in 1..Len(calls) :
                calls[j].n = j /\ calls[j].err = ErrOf(j)
           /\ (rPc = "rejected" /\ rFirstOk > maxAttempts)
                => Len(calls) = IntOf(rOpts.retries)
           /\ rPc = "resolved" => Len(calls) = rFirstOk - 1

\* an op that always fails, three retries, three calls of onRetry
RetryCallbackWitness ==
    /\ rPc = "rejected"
    /\ rOpts.onRetry = "returns"
    /\ rOpts.retries = Int2Num(3)
    /\ Len(SelectSeq(rTrace, IsOnRetry)) = 3

\* C16: an exception thrown by onRetry is discarded: the call is followed by
\* the sleep of that attempt and the next attempt, and the attempts made and
\* the outcome of withRetry are those fixed by the options and the op alone,
\* the same for a callback that throws and one that returns.
RetryCallbackErrorSwallowed ==
    (RetryRunning /\ rOpts.onRetry = "throws") =>
      LET r == IntOf(rOpts.retries)
          k == rFirstOk
          n == Len(rTrace)
      IN
      /\ rOutcome.kind \in {"none", "value", "error"}
      /\ \A i \in 1..n :
            rTrace[i].ev = "onRetry" =>
               /\ i < n
               /\ rTrace[i + 1].ev = "sleepStart"
               /\ rTrace[i + 1].n = rTrace[i].n
               /\ (rPc \in {"resolved", "rejected"} \/ i + 2 < n) =>
                     /\ rTrace[i + 2].ev = "sleepEnd"
                     /\ rTrace[i + 3].ev = "invoke"
                     /\ rTrace[i + 3].n = rTrace[i].n + 1
      /\ rPc \in {"resolved", "rejected"} =>
            /\ rCalls = Min(k, r + 1)
            /\ k <= r + 1 => rPc = "resolved" /\ rOutcome = ValOf(k)
            /\ k > r + 1 => rPc = "rejected" /\ rOutcome = ErrOf(r + 1)

\* the callback threw twice and the third attempt succeeded
RetryCallbackErrorWitness ==
    /\ rOpts.onRetry = "throws"
    /\ rPc = "resolved"
    /\ rCalls = 3
    /\ Len(SelectSeq(rTrace, IsOnRetry)) = 2

\* the options that validation must refuse
InvalidRetries(n) == n.k # "fin" \/ n.v < 0 \/ n.v % 2 # 0
InvalidDelayBound(n) == n.k # "fin" \/ n.v <= 0

\* C17: with retries negative or not an integer, or baseMs or maxMs not
\* positive or not finite, withRetry rejects with a RangeError and op is not
\* invoked, onRetry is not called and nothing is slept.
RetryInvalidOptionsFailFast ==
    (/\ rPc # "idle"
     /\ \/ InvalidRetries(rOpts.retries)
        \/ InvalidDelayBound(rOpts.baseMs)
        \/ InvalidDelayBound(rOpts.maxMs))
    => /\ rPc = "rejected"
       /\ rOutcome.kind = "RangeError"
       /\ rCalls = 0
       /\ rInFlight = 0
       /\ rTrace = <<>>

\* valid retries and baseMs, maxMs = NaN: refused on account of maxMs
RetryInvalidOptionsWitness ==
    /\ rPc = "rejected"
    /\ rOpts.retries = Int2Num(2) /\ rOpts.baseMs = Int2Num(100)
    /\ rOpts.maxMs = NaN
    /\ rOutcome = RangeErr("maxMs must be a positive finite number")
    /\ rCalls = 0

(***************************************************************************)
(* MQTT client wrapper  (adapters/mqtt/mqtt-client.ts)                     *)
(*                                                                         *)
(* A topic is the sequence of its levels, i.e. the result of split('/').   *)
(* The native client of the mqtt library is the environment: it connects,  *)
(* drops, announces a reconnect, acknowledges subscribes and ends.  A      *)
(* subscribe that is still unacknowledged when the transport drops or the  *)
(* client closes is never acknowledged.  The callback of a native publish  *)
(* touches no state of the wrapper (it settles the promise of publish), so *)
(* it is taken as the event right after the call, or not at all.           *)
(***************************************************************************)
Sessions == 1..MaxSessions

SubTopics == {<<"dev", "+", "state">>, <<"dev", "#">>}
BlankTopic == <<" ">>
MsgTopics == {<<"dev", "lamp", "state">>, <<"dev", "a", "b">>, <<"other">>}

\* typeof topic !== 'string' || topic.trim().length === 0
IsBlankTopic(t) == Len(t) = 1 /\ t[1] \in {"", " "}

\* levels[i], undefined past the end of the array
LevelAt(levels, i) == IF i \in 1..Len(levels) THEN levels[i] ELSE "<undefined>"

\* matchTopic(pattern, topic)
MatchTopic_NoDepthCheck(pattern, topic) ==
    IF pattern = topic THEN TRUE
    ELSE IF pattern[Len(pattern)] = "#"
      THEN \A i \in 1..(Len(pattern) - 1) :
                pattern[i] = "+" \/ pattern[i] = LevelAt(topic, i)
    ELSE IF Len(pattern) # Len(topic) THEN FALSE
    ELSE \A i \in 1..Len(pattern) :
           pattern[i] = "+" \/ pattern[i] = LevelAt(topic, i)
MatchTopic(pattern, topic) ==
    IF pattern = topic THEN TRUE
    ELSE IF pattern[Len(pattern)] = "#"
      THEN /\ \A i \in 1..(Len(pattern) - 1) :
                pattern[i] = "+" \/ pattern[i] = LevelAt(topic, i)
           /\ Len(topic) >= Len(pattern) - 1
    ELSE IF Len(pattern) # Len(topic) THEN FALSE
    ELSE \A i \in 1..Len(pattern) :
           pattern[i] = "+" \/ pattern[i] = LevelAt(topic, i)

\* native .connected: true from the connack until the stream closes
NativeConnected(st) == st \in {"connected", "ending"}

RECURSIVE TableKeys(_)
\* Array.from(subscriptions.keys())
TableKeys(table) ==
    IF table = <<>> THEN <<>>
    ELSE <<Head(table).topic>> \o TableKeys(Tail(table))

KeySet(table) == {table[i].topic : i \in 1..Len(table)}

\* Map.prototype.set: a new key goes last, an old key keeps its place
TableSet(table, topic, handler) ==
    IF topic \in KeySet(table)
      THEN [i \in 1..Len(table) |->
              IF table[i].topic = topic
                THEN [topic |-> topic, handler |-> handler]
                ELSE table[i]]
      ELSE Append(table, [topic |-> topic, handler |-> handler])

\* subscriptions.clear() in the callback of end()
TableCleared_Kept(table) == table
TableCleared(table) == <<>>

\* restoreSubscriptions: the topic list of the one native subscribe it
\* issues, or <<>> when it issues none
RestoreBatch_First(table) == IF Len(table) > 0 THEN <<Head(table).topic>> ELSE <<>>
RestoreBatch(table) == IF Len(table) > 0 THEN TableKeys(table) ELSE <<>>

RECURSIVE InvokedHandlers(_, _)
\* the 'message' listener: the handlers called, in order
InvokedHandlers(table, topic) ==
    IF table = <<>> THEN <<>>
    ELSE (IF MatchTopic(Head(table).topic, topic)
            THEN <<Head(table).handler>> ELSE <<>>)
         \o InvokedHandlers(Tail(table), topic)

Event(ev, c, issued, invoked, result) ==
    [ev |-> ev, c |-> c, issued |-> issued, invoked |-> invoked,
     result |-> result, tableBefore |-> mTable, currentBefore |-> mCurrent]

MInit ==
    /\ mCurrent = 0
    /\ nState = [c \in Sessions |-> "unused"]
    /\ nOnceConnect = [c \in Sessions |-> FALSE]
    /\ nOnceError = [c \in Sessions |-> FALSE]
    /\ cPromise = [c \in Sessions |-> "none"]
    /\ mTable = <<>>
    /\ mPendingSubs = {}
    /\ mPendingEnds = [c \in Sessions |-> 0]
    /\ mSubCalls = 0
    /\ mDrops = 0
    /\ mEnds = 0
    /\ mAcked = {}
    /\ mLast = [ev |-> "none", c |-> 0, issued |-> <<>>, invoked |-> <<>>,
                result |-> "", tableBefore |-> <<>>, currentBefore |-> 0]

\* connect(): rejects when the current native client is connected, else
\* creates a native client and arms its listeners
MqttConnect ==
    IF mCurrent # 0 /\ NativeConnected(nState[mCurrent])
      THEN /\ mLast' = Event("connect", mCurrent, <<>>, <<>>,
                             "MQTT client is already connected")
           /\ UNCHANGED <<mCurrent, nState, nOnceConnect, nOnceError, cPromise,
                          mTable, mPendingSubs, mPendingEnds, mSubCalls,
                          mDrops, mEnds, mAcked>>
      ELSE \E c \in Sessions :
           /\ nState[c] = "unused"
           /\ \A b \in Sessions : b < c => nState[b] # "unused"
           /\ mCurrent' = c
           /\ nState' = [nState EXCEPT ![c] = "connecting"]
           /\ nOnceConnect' = [nOnceConnect EXCEPT ![c] = TRUE]
           /\ nOnceError' = [nOnceError EXCEPT ![c] = TRUE]
           /\ cPromise' = [cPromise EXCEPT ![c] = "pending"]
           /\ mLast' = Event("connect", c, <<>>, <<>>, "pending")
           /\ UNCHANGED <<mTable, mPendingSubs, mPendingEnds, mSubCalls,
                          mDrops, mEnds, mAcked>>

\* the broker accepts the connection: 'connect' is emitted; the once
\* listener restores the subscriptions and resolves the promise
NativeConnAck(c) ==
    /\ nState[c] \in {"connecting", "reconnecting"}
    /\ nState' = [nState EXCEPT ![c] = "connected"]
    /\ IF nOnceConnect[c]
         THEN /\ nOnceConnect' = [nOnceConnect EXCEPT ![c] = FALSE]
              /\ cPromise' = [cPromise EXCEPT ![c] =
                    IF @ = "pending" THEN "resolved" ELSE @]
              /\ mLast' = Event("firstConnack", c, RestoreBatch(mTable),
                                <<>>, "")
         ELSE /\ mLast' = Event("connack", c, <<>>, <<>>, "")
              /\ UNCHANGED <<nOnceConnect, cPromise>>
    /\ UNCHANGED <<mCurrent, nOnceError, mTable, mPendingSubs, mPendingEnds,
                   mSubCalls, mDrops, mEnds, mAcked>>

\* a connection attempt fails: 'error' is emitted; the once listener
\* rejects the promise; the native client will try again
NativeConnError(c) ==
    /\ nState[c] \in {"connecting", "reconnecting"}
    /\ mDrops < MaxDrops
    /\ mDrops' = mDrops + 1
    /\ nState' = [nState EXCEPT ![c] = "offline"]
    /\ IF nOnceError[c]
         THEN /\ nOnceError' = [nOnceError EXCEPT ![c] = FALSE]
              /\ cPromise' = [cPromise EXCEPT ![c] =
                    IF @ = "pending" THEN "rejected" ELSE @]
         ELSE UNCHANGED <<nOnceError, cPromise>>
    /\ mLast' = Event("error", c, <<>>, <<>>, "")
    /\ UNCHANGED <<mCurrent, nOnceConnect, mTable, mPendingSubs, mPendingEnds,
                   mSubCalls, mEnds, mAcked>>

\* the transport drops: no listener of the wrapper runs
NativeDrop(c) ==
    /\ nState[c] = "connected"
    /\ mDrops < MaxDrops
    /\ mDrops' = mDrops + 1
    /\ nState' = [nState EXCEPT ![c] = "offline"]
    /\ mPendingSubs' = {p \in mPendingSubs : p.c # c}
    /\ mLast' = Event("drop", c, <<>>, <<>>, "")
    /\ UNCHANGED <<mCurrent, nOnceConnect, nOnceError, cPromise, mTable,
                   mPendingEnds, mSubCalls, mEnds, mAcked>>

\* the native client starts to reconnect: 'reconnect' is emitted and the
\* listener restores the subscriptions
NativeReconnect(c) ==
    /\ nState[c] = "offline"
    /\ nState' = [nState EXCEPT ![c] = "reconnecting"]
    /\ mLast' = Event("reconnect", c, RestoreBatch(mTable), <<>>, "")
    /\ UNCHANGED <<mCurrent, nOnceConnect, nOnceError, cPromise, mTable,
                   mPendingSubs, mPendingEnds, mSubCalls, mDrops, mEnds,
                   mAcked>>

\* clientRef.current?.connected === true, the guard of publish and subscribe
ClientConnected_HasClient == mCurrent # 0
ClientConnected == mCurrent # 0 /\ NativeConnected(nState[mCurrent])

\* publish(topic, payload) up to the native publish; serializable is false
\* for an object that JSON.stringify refuses
MqttPublish(topic, serializable) ==
    /\ mLast' = Event("publish", mCurrent,
          IF ClientConnected /\ ~IsBlankTopic(topic) /\ serializable
            THEN <<topic>> ELSE <<>>,
          <<>>,
          IF ~ClientConnected THEN "MQTT client is not connected"
          ELSE IF IsBlankTopic(topic) THEN "topic must be a non-empty string"
          ELSE IF ~serializable THEN "Failed to serialize payload to JSON"
          ELSE "pending")
    /\ UNCHANGED <<mCurrent, nState, nOnceConnect, nOnceError, cPromise,
                   mTable, mPendingSubs, mPendingEnds, mSubCalls, mDrops,
                   mEnds, mAcked>>

\* the callback of the native publish: the promise resolves, or rejects
\* when the callback is given an error
NativePubDone(failed) ==
    /\ mLast.ev = "publish" /\ mLast.result = "pending"
    /\ mLast' = Event("pubDone", mLast.c, <<>>, <<>>,
                      IF failed THEN "Failed to publish" ELSE "resolved")
    /\ UNCHANGED <<mCurrent, nState, nOnceConnect, nOnceError, cPromise,
                   mTable, mPendingSubs, mPendingEnds, mSubCalls, mDrops,
                   mEnds, mAcked>>

\* subscribe(topic, handler) up to the native subscribe; handler 0 stands
\* for a value that is not a function
MqttSubscribe(topic, isFunction) ==
    /\ IF ~ClientConnected
         THEN /\ mLast' = Event("subscribe", mCurrent, <<>>, <<>>,
                                "MQTT client is not connected")
              /\ UNCHANGED <<mPendingSubs, mSubCalls>>
         ELSE IF IsBlankTopic(topic)
         THEN /\ mLast' = Event("subscribe", mCurrent, <<>>, <<>>,
                                "topic must be a non-empty string")
              /\ UNCHANGED <<mPendingSubs, mSubCalls>>
         ELSE IF ~isFunction
         THEN /\ mLast' = Event("subscribe", mCurrent, <<>>, <<>>,
                                "handler must be a function")
              /\ UNCHANGED <<mPendingSubs, mSubCalls>>
         ELSE /\ mSubCalls < MaxSubCalls
              /\ mSubCalls' = mSubCalls + 1
              /\ mPendingSubs' = mPendingSubs \cup
                    {[c |-> mCurrent, topic |-> topic, handler |-> mSubCalls + 1]}
              /\ mLast' = Event("subscribe", mCurrent, <<topic>>, <<>>,
                                "pending")
    /\ UNCHANGED <<mCurrent, nState, nOnceConnect, nOnceError, cPromise,
                   mTable, mPendingEnds, mDrops, mEnds, mAcked>>

\* the callback of the native subscribe, without error: the handler enters
\* the table and the promise resolves
NativeSubAck(p) ==
    /\ p \in mPendingSubs
    /\ NativeConnected(nState[p.c])
    /\ mPendingSubs' = mPendingSubs \ {p}
    /\ mTable' = TableSet(mTable, p.topic, p.handler)
    /\ mAcked' = mAcked \cup {p.topic}
    /\ mLast' = Event("subAck", p.c, <<>>, <<>>, "resolved")
    /\ UNCHANGED <<mCurrent, nState, nOnceConnect, nOnceError, cPromise,
                   mPendingEnds, mSubCalls, mDrops, mEnds>>

\* the callback of the native subscribe, with an error: the promise rejects
NativeSubNack(p) ==
    /\ p \in mPendingSubs
    /\ mPendingSubs' = mPendingSubs \ {p}
    /\ mLast' = Event("subNack", p.c, <<>>, <<>>, "Failed to subscribe")
    /\ UNCHANGED <<mCurrent, nState, nOnceConnect, nOnceError, cPromise,
                   mTable, mPendingEnds, mSubCalls, mDrops, mEnds, mAcked>>

\* disconnect() up to the native end(): a no-op without a native client
MqttDisconnect ==
    IF mCurrent = 0
      THEN /\ mLast' = Event("disconnect", 0, <<>>, <<>>, "resolved")
           /\ UNCHANGED <<mCurrent, nState, nOnceConnect, nOnceError, cPromise,
                          mTable, mPendingSubs, mPendingEnds, mSubCalls,
                          mDrops, mEnds, mAcked>>
      ELSE /\ mEnds < MaxDisconnects
           /\ mEnds' = mEnds + 1
           /\ mPendingEnds' = [mPendingEnds EXCEPT ![mCurrent] = @ + 1]
           /\ nState' = [nState EXCEPT ![mCurrent] =
                 IF @ = "connected" THEN "ending"
                 ELSE IF @ \in {"connecting", "offline", "reconnecting"}
                   THEN "closing"
                 ELSE @]
           /\ mPendingSubs' =
                 IF nState[mCurrent] \in {"connecting", "offline", "reconnecting"}
                   THEN {p \in mPendingSubs : p.c # mCurrent}
                   ELSE mPendingSubs
           /\ mLast' = Event("disconnect", mCurrent, <<>>, <<>>, "pending")
           /\ UNCHANGED <<mCurrent, nOnceConnect, nOnceError, cPromise, mTable,
                          mSubCalls, mDrops, mAcked>>

\* the stream of an ending native client closes
NativeEndCloses(c) ==
    /\ nState[c] = "ending"
    /\ nState' = [nState EXCEPT ![c] = "closing"]
    /\ mPendingSubs' = {p \in mPendingSubs : p.c # c}
    /\ mLast' = Event("close", c, <<>>, <<>>, "")
    /\ UNCHANGED <<mCurrent, nOnceConnect, nOnceError, cPromise, mTable,
                   mPendingEnds, mSubCalls, mDrops, mEnds, mAcked>>

\* the callback of end(), without error: the reference and the table are
\* cleared and the promise of disconnect() resolves
NativeEndDone(c) ==
    /\ mPendingEnds[c] > 0
    /\ nState[c] \in {"closing", "ended"}
    /\ nState' = [nState EXCEPT ![c] = "ended"]
    /\ mPendingEnds' = [mPendingEnds EXCEPT ![c] = @ - 1]
    /\ mCurrent' = 0
    /\ mTable' = TableCleared(mTable)
    /\ mAcked' = {}
    /\ mLast' = Event("endDone", c, <<>>, <<>>, "resolved")
    /\ UNCHANGED <<nOnceConnect, nOnceError, cPromise, mPendingSubs,
                   mSubCalls, mDrops, mEnds>>

\* the callback of end(), with an error: the promise of disconnect() rejects
NativeEndFails(c) ==
    /\ mPendingEnds[c] > 0
    /\ nState[c] \in {"ending", "closing"}
    /\ mPendingEnds' = [mPendingEnds EXCEPT ![c] = @ - 1]
    /\ mLast' = Event("endFailed", c, <<>>, <<>>,
                      "Failed to disconnect from MQTT broker")
    /\ UNCHANGED <<mCurrent, nState, nOnceConnect, nOnceError, cPromise,
                   mTable, mPendingSubs, mSubCalls, mDrops, mEnds, mAcked>>

\* a message arrives on a native client: the 'message' listener calls every
\* handler of the table whose pattern matches
NativeMessage(c, topic) ==
    /\ NativeConnected(nState[c])
    /\ mLast' = Event("message", c, <<>>, InvokedHandlers(mTable, topic), "")
    /\ UNCHANGED <<mCurrent, nState, nOnceConnect, nOnceError, cPromise,
                   mTable, mPendingSubs, mPendingEnds, mSubCalls, mDrops,
                   mEnds, mAcked>>

MqttNext ==
    \/ MqttConnect
    \/ \E t \in SubTopics \cup {BlankTopic}, f \in BOOLEAN : MqttSubscribe(t, f)
    \/ \E t \in {<<"dev", "lamp", "state">>, BlankTopic}, j \in BOOLEAN :
          MqttPublish(t, j)
    \/ \E failed \in BOOLEAN : NativePubDone(failed)
    \/ MqttDisconnect
    \/ \E c \in Sessions : NativeConnAck(c)
    \/ \E c \in Sessions : NativeConnError(c)
    \/ \E c \in Sessions : NativeDrop(c)
    \/ \E c \in Sessions : NativeReconnect(c)
    \/ \E p \in mPendingSubs : NativeSubAck(p)
    \/ \E p \in mPendingSubs : NativeSubNack(p)
    \/ \E c \in Sessions : NativeEndCloses(c)
    \/ \E c \in Sessions : NativeEndDone(c)
    \/ \E c \in Sessions : NativeEndFails(c)
    \/ \E c \in Sessions, t \in MsgTopics : NativeMessage(c, t)

(***************************************************************************)
(* Claims about the MQTT client wrapper.                                   *)
(***************************************************************************)
HandlerSet(table) == {table[i].handler : i \in 1..Len(table)}
SeqRange(q) == {q[i] : i \in 1..Len(q)}

\* C5: on the first connect acknowledgment of a native client and on every
\* reconnect event, without a call of the wrapper's user, one native
\* subscribe is issued whose topic list is exactly the topics of the
\* subscription table (none is issued for an empty table); the table is the
\* set of topics acknowledged since the last completed disconnect, and the
\* event leaves every topic with its handler.
MqttRestoresSubscriptions ==
    /\ KeySet(mTable) = mAcked
    /\ mLast.ev \in {"firstConnack", "reconnect"} =>
         /\ mLast.issued = TableKeys(mLast.tableBefore)
         /\ SeqRange(mLast.issued) = mAcked
         /\ mTable = mLast.tableBefore
    /\ mLast.ev \in {"connack", "drop", "error", "close"} =>
         mLast.issued = <<>> /\ mTable = mLast.tableBefore

\* after the second transport drop a reconnect re-subscribed two topics
MqttRestoresWitness ==
    /\ mLast.ev = "reconnect"
    /\ mDrops = 2
    /\ Len(mLast.issued) = 2
    /\ Len(mTable) = 2

MqttDisconnectStep ==
    \* disconnect() without a native client resolves and changes nothing
    /\ (mLast'.ev = "disconnect" /\ mLast'.currentBefore = 0) =>
          /\ mLast'.result = "resolved"
          /\ UNCHANGED <<mCurrent, nState, nOnceConnect, nOnceError, cPromise,
                         mTable, mPendingSubs, mPendingEnds, mSubCalls,
                         mDrops, mEnds, mAcked>>
    \* a disconnect() that succeeds has ended the session and emptied the table
    /\ mLast'.ev = "endDone" =>
          /\ mLast'.result = "resolved"
          /\ mTable' = <<>>
          /\ mCurrent' = 0
          /\ nState'[mLast'.c] = "ended"
    \* an empty table stays empty until a subscribe succeeds on a connected client
    /\ (mTable = <<>> /\ mTable' # <<>>) =>
          /\ mLast'.ev = "subAck"
          /\ NativeConnected(nState'[mLast'.c])
          /\ mLast'.result = "resolved"
    \* a connect() that finds the table empty re-asserts no topic
    /\ (mLast'.ev \in {"firstConnack", "reconnect"} /\ mLast'.tableBefore = <<>>) =>
          mLast'.issued = <<>> /\ mTable' = <<>>
    \* a message reaches no handler that is not in the table
    /\ mLast'.ev = "message" =>
          /\ SeqRange(mLast'.invoked) \subseteq HandlerSet(mLast'.tableBefore)
          /\ mLast'.tableBefore = <<>> => mLast'.invoked = <<>>

\* C6: disconnect() without a session is a no-op that resolves, any number
\* of times; a successful disconnect() ends the session and empties the
\* subscription table, which stays empty until a subscribe succeeds on a
\* connected client, so the next connect() re-asserts no topic and no
\* handler of before the disconnect is called for the new session.
MqttDisconnectClears == [][MqttDisconnectStep]_vars

\* a successful disconnect() has just emptied a table that held a topic
MqttDisconnectWitness ==
    /\ mLast.ev = "endDone"
    /\ mLast.tableBefore # <<>>
    /\ mTable = <<>>
    /\ mCurrent = 0

\* the client has no connected session: it holds no native client, or the
\* stream of the one it holds is not open
NoConnectedSession ==
    \/ mCurrent = 0
    \/ nState[mCurrent] \in {"unused", "connecting", "offline", "reconnecting",
                             "closing", "ended"}

MqttCallWhileNotConnected ==
    (NoConnectedSession /\ mLast'.ev \in {"publish", "subscribe"}) =>
       /\ mLast'.result = "MQTT client is not connected"
       /\ mLast'.issued = <<>>
       /\ UNCHANGED <<mTable, mPendingSubs, mCurrent, nState, mPendingEnds,
                      mSubCalls, mAcked>>

\* C19: publish and subscribe called while the client has no connected
\* session reject with 'MQTT client is not connected': no native publish or
\* subscribe is issued, none is left awaiting a callback, and the
\* subscription table is unchanged.
MqttNotConnectedRejects == [][MqttCallWhileNotConnected]_vars

\* a publish was rejected on a client whose session dropped after two topics
\* had been subscribed
MqttNotConnectedWitness ==
    /\ mLast.ev = "publish"
    /\ mLast.result = "MQTT client is not connected"
    /\ mCurrent # 0 /\ nState[mCurrent] = "offline"
    /\ Len(mTable) = 2
    /\ mTable = mLast.tableBefore

(***************************************************************************)
(* Device state merge  (domain/device-state.ts)                            *)
(*                                                                         *)
(* A JavaScript value is a record [t, v]: a number, null, undefined, an    *)
(* array, a reference to a state object of the heap, or a nested object,   *)
(* which the merge never looks into and which is named by a token.  A      *)
(* state object maps every field name to its value, Absent standing for    *)
(* "no own property".                                                      *)
(***************************************************************************)
Fields == {"a", "b"}
FieldOrder == <<"a", "b">>       \* the order in which for-in visits the keys

Absent    == [t |-> "absent", v |-> 0]
Undef     == [t |-> "undefined", v |-> 0]
Null      == [t |-> "null", v |-> 0]
Num(n)    == [t |-> "number", v |-> n]
Nested(n) == [t |-> "nested", v |-> n]
ArrayVal  == [t |-> "array", v |-> 0]
Ref(r)    == [t |-> "object", v |-> r]

EmptyObject == [f \in Fields |-> Absent]

PrevFieldValues  == {Absent, Undef, Num(1), Nested(1)}
PatchFieldValues == {Absent, Undef, Num(2), Nested(2)}

\* Object.hasOwn(obj, key)
HasOwn(obj, key) == obj[key] # Absent

\* result[key] = value: the value of the patch replaces the old one whole
MergeValue_Deep(old, value) ==
    IF old.t = "nested" /\ value.t = "nested"
      THEN Nested(10 * old.v + value.v)
      ELSE value
MergeValue(old, value) == value

RECURSIVE MergeLoop(_, _, _)
\* for (const key in patch) { if (Object.hasOwn(patch, key)) { ... } }
MergeLoop(result, patch, keys) ==
    IF keys = <<>> THEN result
    ELSE LET key == Head(keys)
             value == patch[key]
         IN  MergeLoop(
               IF HasOwn(patch, key) /\ value # Undef
                 THEN [result EXCEPT ![key] = MergeValue(result[key], value)]
                 ELSE result,
               patch, Tail(keys))

\* the fields of { ...prev } after the loop over the patch
MergeFields_NoPrev(prev, patch) == MergeLoop(EmptyObject, patch, FieldOrder)
MergeFields(prev, patch) == MergeLoop(prev, patch, FieldOrder)

\* validateStateObject: the message of the TypeError thrown, or ""
ValidateStateObject(prev, patch) ==
    IF prev.t # "object"
      THEN "prev must be a plain object"
    ELSE IF patch.t \in {"null", "undefined"}
      THEN "patch cannot be null or undefined"
    ELSE ""

\* const result = { ...prev }: the object the loop writes into
MergeTarget_InPlace(prevRef, freshRef) == prevRef
MergeTarget(prevRef, freshRef) == freshRef

\* the heap after mergeDeviceState(prev, patch) wrote its result to target
HeapAfterMerge(h, prevFields, patchFields, target) ==
    IF target = Len(h) + 1
      THEN Append(h, MergeFields(prevFields, patchFields))
      ELSE [h EXCEPT ![target] = MergeFields(prevFields, patchFields)]

MgInit ==
    /\ heap = <<>>
    /\ mgPrev = Undef
    /\ mgPatch = Undef
    /\ mgPc = "idle"
    /\ mgResult = Undef
    /\ mgGiven = <<>>

\* the arguments of one call: two objects of the heap, or other values
MergeInputs ==
    /\ \E s \in [Fields -> PrevFieldValues], p \in [Fields -> PatchFieldValues] :
          heap = <<s, p>>
    /\ mgPrev \in {Ref(1), Null, ArrayVal, Num(42)}
    /\ mgPatch \in {Ref(2), Null, Undef}
    /\ mgPc = "idle"
    /\ mgResult = Undef
    /\ mgGiven = heap

MergeDeviceState ==
    /\ mgPc = "idle"
    /\ mgGiven # <<>>
    /\ IF ValidateStateObject(mgPrev, mgPatch) # ""
         THEN /\ mgPc' = "threw"
              /\ UNCHANGED <<heap, mgResult>>
         ELSE LET target == MergeTarget(mgPrev.v, Len(heap) + 1)
              IN  /\ heap' = HeapAfterMerge(heap, heap[mgPrev.v], heap[mgPatch.v], target)
                  /\ mgResult' = Ref(target)
                  /\ mgPc' = "returned"
    /\ UNCHANGED <<mgPrev, mgPatch, mgGiven>>

MergeNext == MergeDeviceState

\* C9: for plain objects S and P, mergeDeviceState(S, P) returns a new
\* object and leaves S and P as they were; the result has P's value, taken
\* whole, for every own key of P whose value is not undefined, and S's value
\* for every other key; keys of P with the value undefined are not written.
MergeIsPureAndShallow ==
    mgPc = "returned" =>
      LET S == mgGiven[1]
          P == mgGiven[2]
          R == heap[mgResult.v]
      IN  /\ mgResult.t = "object"
          /\ mgResult # mgPrev /\ mgResult # mgPatch
          /\ heap[1] = S /\ heap[2] = P
          /\ \A f \in Fields :
               IF P[f] \notin {Absent, Undef}
                 THEN R[f] = P[f]
                 ELSE R[f] = S[f]

\* a nested object of P replaced the nested object of S, an undefined of P
\* left the number of S in place
MergeWitness ==
    /\ mgPc = "returned"
    /\ mgGiven[1]["a"] = Num(1) /\ mgGiven[2]["a"] = Undef
    /\ mgGiven[1]["b"] = Nested(1) /\ mgGiven[2]["b"] = Nested(2)
    /\ heap[mgResult.v]["a"] = Num(1)
    /\ heap[mgResult.v]["b"] = Nested(2)

(***************************************************************************)
(* State stores  (storage/state-store.ts, storage/json-store.ts) and the   *)
(* patch entry point of the device manager  (core/device-manager.ts)       *)
(*                                                                         *)
(* Both stores keep references to state objects of the heap.  A call of    *)
(* the in-memory store runs to its end in one step.  A call of the JSON    *)
(* store first awaits initPromise, then runs its synchronous part (check,  *)
(* read, merge, write to the mirror, JSON.stringify), then writes the      *)
(* file in steps that interleave with those of other calls.                *)
(***************************************************************************)
StoreKeys == {"k1", "k2"}
KeyOrder  == <<"k1", "k2">>
BlankKey  == " "

Obj(a, b) == [f \in Fields |-> IF f = "a" THEN a ELSE b]

\* the object literals callers hand over: { a: 1 }, { a: 2 }, { a: undefined, b: 2 }
Literals == <<Obj(Num(1), Absent), Obj(Num(2), Absent), Obj(Undef, Num(2))>>
Lit(n) == [t |-> "literal", v |-> n]
\* a fresh {} that is in no variable yet
EmptyBase == Ref(0)

SetInputs   == {Lit(1), Num(5)}
PatchInputs == {Lit(2), Lit(3)}
OddPatchInputs == {Null, Num(7), ArrayVal}

\* typeof key !== 'string' || key.trim().length === 0
IsBlankKey(key) == key \in {"", " "}

\* typeof partial === 'object'
TypeofObject(val) == val.t \in {"object", "literal", "null", "array", "nested"}

\* const current = data[key], read in the synchronous part of patch
PatchCurrent_AtCall(seenAtCall, now) == seenAtCall
PatchCurrent(seenAtCall, now) == now

\* current === undefined ? {} : current
PatchBase_NoDefault(current) == IF current = Absent THEN Undef ELSE current
PatchBase(current) == IF current \in {Absent, Undef} THEN EmptyBase ELSE current

BaseFields(h, base) == IF base.v = 0 THEN EmptyObject ELSE h[base.v]

\* the own enumerable keys of the patch: those of a literal, none of []
PatchFields(partial) ==
    IF partial.t = "literal" THEN Literals[partial.v] ELSE EmptyObject

\* store.set(key, merged) / data[key] = merged: what patch stores for the key
PatchStored_Base(current, merged) ==
    IF current.t = "object" THEN current ELSE merged
PatchStored(current, merged) == merged

\* the body of patch after the key check: [err, data, heap, ret]
PatchOutcome(data, h, key, partial, current) ==
    LET base == PatchBase(current)
        fresh == Len(h) + 1
        target == IF base.t = "object" /\ base.v # 0
                    THEN MergeTarget(base.v, fresh) ELSE fresh
    IN  IF ~TypeofObject(partial)
          THEN [err |-> "partial must be an object", data |-> data,
                heap |-> h, ret |-> Undef]
        ELSE IF ValidateStateObject(base, partial) # ""
          THEN [err |-> ValidateStateObject(base, partial), data |-> data,
                heap |-> h, ret |-> Undef]
        ELSE [err |-> "",
              data |-> [data EXCEPT ![key] = PatchStored(current, Ref(target))],
              heap |-> HeapAfterMerge(h, BaseFields(h, base),
                                      PatchFields(partial), target),
              ret |-> Ref(target)]

\* the value a caller's argument denotes once a literal is on the heap
Stored(val, h) == IF val.t = "literal" THEN Ref(Len(h) + 1) ELSE val
HeapWith(val, h) ==
    IF val.t = "literal" THEN Append(h, Literals[val.v]) ELSE h

\* a value as JSON.stringify writes it and JSON.parse reads it
JObj(fields) == [t |-> "jobject", v |-> 0, a |-> fields["a"], b |-> fields["b"]]
JPrim(val)   == [t |-> val.t, v |-> val.v, a |-> Absent, b |-> Absent]
JAbsent      == JPrim(Absent)
JFields(jv)  == Obj(jv.a, jv.b)

EmptyDoc == [k \in StoreKeys |-> JAbsent]

NoLast == [op |-> "none", call |-> 0, key |-> "", arg |-> Undef, err |-> "",
           ret |-> Undef, before |-> [k \in StoreKeys |-> Absent]]

LastOf(op, call, key, arg, err, ret) ==
    [op |-> op, call |-> call, key |-> key, arg |-> arg, err |-> err,
     ret |-> ret, before |-> stData]

AbsentFile == [state |-> "absent", doc |-> EmptyDoc]

\* the file path handed to createJsonStateStore
FilePath == "state.json"

\* an error object: its class, the pieces of its message and, as cause, the
\* message of the error it wraps ("" without cause)
StoreError(name, message, cause) ==
    [name |-> name, message |-> message, cause |-> cause]
NoError == StoreError("", <<>>, "")

StInit ==
    /\ stKind = "none"
    /\ stData = [k \in StoreKeys |-> Absent]
    /\ stCalls = <<>>
    /\ stApplied = <<>>
    /\ stPatched = [k \in StoreKeys |-> Absent]
    /\ stLast = NoLast
    /\ jAtomic = TRUE
    /\ jInit = "none"
    /\ jFile = AbsentFile
    /\ jWaiting = <<>>

(***************************************************************************)
(* In-memory store.                                                        *)
(***************************************************************************)
CallsMade == Len(stCalls)
NextCall  == CallsMade + 1

Applied(op, key, arg, val) ==
    Append(stApplied, [call |-> NextCall, op |-> op, key |-> key,
                       arg |-> arg, val |-> val])

\* a call that has run to its end
DoneCall(op, key, arg, val) ==
    [pc |-> "resolved", op |-> op, key |-> key, arg |-> arg, val |-> val,
     content |-> EmptyDoc, seen |-> Undef, overlapped |-> FALSE,
     temp |-> "none", err |-> NoError]

MemSet(key, val) ==
    /\ stKind = "memory"
    /\ IF IsBlankKey(key)
         THEN /\ stLast' = LastOf("set", 0, key, val,
                                  "key must be a non-empty string", Undef)
              /\ UNCHANGED <<heap, stData, stCalls, stApplied, stPatched>>
         ELSE /\ CallsMade < MaxStoreCalls
              /\ heap' = HeapWith(val, heap)
              /\ stData' = [stData EXCEPT ![key] = Stored(val, heap)]
              /\ stCalls' = Append(stCalls, DoneCall("set", key, val, Stored(val, heap)))
              /\ stApplied' = Applied("set", key, val, Stored(val, heap))
              /\ stPatched' = [stPatched EXCEPT ![key] = Absent]
              /\ stLast' = LastOf("set", NextCall, key, val, "", Undef)
    /\ UNCHANGED <<stKind, jAtomic, jInit, jFile, jWaiting>>

MemPatch(key, partial) ==
    /\ stKind = "memory"
    /\ IF IsBlankKey(key)
         THEN /\ stLast' = LastOf("patch", 0, key, partial,
                                  "key must be a non-empty string", Undef)
              /\ UNCHANGED <<heap, stData, stCalls, stApplied, stPatched>>
         ELSE LET out == PatchOutcome(stData, heap, key, partial, stData[key])
              IN  IF out.err # ""
                    THEN /\ stLast' = LastOf("patch", 0, key, partial,
                                             out.err, Undef)
                         /\ UNCHANGED <<heap, stData, stCalls, stApplied,
                                        stPatched>>
                    ELSE /\ CallsMade < MaxStoreCalls
                         /\ heap' = out.heap
                         /\ stData' = out.data
                         /\ stCalls' = Append(stCalls, DoneCall("patch", key, partial, out.ret))
                         /\ stApplied' = Applied("patch", key, partial, out.ret)
                         /\ stPatched' = [stPatched EXCEPT ![key] = out.ret]
                         /\ stLast' = LastOf("patch", NextCall, key, partial,
                                             "", out.ret)
    /\ UNCHANGED <<stKind, jAtomic, jInit, jFile, jWaiting>>

MemGet(key) ==
    /\ stKind = "memory"
    /\ IF IsBlankKey(key)
         THEN stLast' = LastOf("get", 0, key, Undef,
                               "key must be a non-empty string", Undef)
         ELSE stLast' = LastOf("get", 0, key, Undef, "",
                               IF stData[key] = Absent THEN Undef
                               ELSE stData[key])
    /\ UNCHANGED <<heap, stKind, stData, stCalls, stApplied, stPatched,
                   jAtomic, jInit, jFile, jWaiting>>

\* validatePatch of the device manager
InvalidPatch_ArrayOk(patch) == ~TypeofObject(patch) \/ patch = Null
InvalidPatch(patch) == ~TypeofObject(patch) \/ patch = Null \/ patch = ArrayVal

\* the class of the error a call rejects with: the checks of the device
\* manager and of the stores throw TypeError, the catch block around
\* stateStore.patch throws a plain Error
ErrorClass(err) ==
    IF err = "" THEN "none"
    ELSE IF err = "Failed to apply state patch" THEN "Error"
    ELSE "TypeError"

\* DeviceManager.applyStatePatch and the deprecated applyDeviceStatePatch
\* (handed a valid store) over the in-memory store
ApplyStatePatchAs(op, deviceId, patch) ==
    /\ stKind = "memory"
    /\ IF IsBlankKey(deviceId)
         THEN /\ stLast' = LastOf(op, 0, deviceId, patch,
                                  "deviceId must be a non-empty string", Undef)
              /\ UNCHANGED <<heap, stData, stCalls, stApplied, stPatched>>
         ELSE IF InvalidPatch(patch)
         THEN /\ stLast' = LastOf(op, 0, deviceId, patch,
                                  "patch must be a plain object", Undef)
              /\ UNCHANGED <<heap, stData, stCalls, stApplied, stPatched>>
         ELSE LET out == PatchOutcome(stData, heap, deviceId, patch,
                                      stData[deviceId])
              IN  IF out.err # ""
                    THEN /\ stLast' = LastOf(op, 0, deviceId,
                               patch, "Failed to apply state patch", Undef)
                         /\ UNCHANGED <<heap, stData, stCalls, stApplied,
                                        stPatched>>
                    ELSE /\ CallsMade < MaxStoreCalls
                         /\ heap' = out.heap
                         /\ stData' = out.data
                         /\ stCalls' = Append(stCalls, DoneCall("patch", deviceId, patch, out.ret))
                         /\ stApplied' = Applied("patch", deviceId, patch, out.ret)
                         /\ stPatched' = [stPatched EXCEPT ![deviceId] = out.ret]
                         /\ stLast' = LastOf(op, NextCall,
                                             deviceId, patch, "", out.ret)
    /\ UNCHANGED <<stKind, jAtomic, jInit, jFile, jWaiting>>

ApplyStatePatch(deviceId, patch) ==
    ApplyStatePatchAs("applyStatePatch", deviceId, patch)

ApplyDeviceStatePatch(deviceId, patch) ==
    ApplyStatePatchAs("applyDeviceStatePatch", deviceId, patch)

\* the deviceId and patch of the calls made on the device manager
ManagerPatchInputs ==
    {<<"k1", Lit(3)>>, <<"k1", Null>>, <<"k1", ArrayVal>>, <<"k1", Num(7)>>,
     <<BlankKey, Lit(3)>>}
DeprecatedPatchInputs == {<<"k1", Lit(3)>>, <<"k1", ArrayVal>>}

MemNext ==
    \/ \E k \in StoreKeys, v \in SetInputs \cup {Undef} : MemSet(k, v)
    \/ \E v \in {Num(5)} : MemSet(BlankKey, v)
    \/ \E k \in StoreKeys, r \in 1..Len(heap) : MemSet(k, Ref(r))
    \/ \E k \in StoreKeys, p \in PatchInputs \cup OddPatchInputs :
          MemPatch(k, p)
    \/ \E p \in {Lit(2)} : MemPatch(BlankKey, p)
    \/ \E k \in StoreKeys \cup {BlankKey} : MemGet(k)
    \/ \E in \in ManagerPatchInputs : ApplyStatePatch(in[1], in[2])
    \/ \E in \in DeprecatedPatchInputs : ApplyDeviceStatePatch(in[1], in[2])

(***************************************************************************)
(* JSON file store.                                                        *)
(***************************************************************************)
\* JSON.stringify of one stored value: fields holding undefined are left out
Jsonify(val, h) ==
    IF val.t = "object"
      THEN JObj([f \in Fields |-> IF h[val.v][f] = Undef THEN Absent
                                  ELSE h[val.v][f]])
    ELSE IF val.t = "undefined" THEN JAbsent
    ELSE JPrim(val)

\* const content = JSON.stringify(data, null, JSON_INDENT)
Stringify_FirstKey(data, h) ==
    [k \in StoreKeys |-> IF k = "k1" THEN Jsonify(data[k], h) ELSE JAbsent]
Stringify(data, h) == [k \in StoreKeys |-> Jsonify(data[k], h)]

RECURSIVE ParseKeys(_, _, _, _)
\* JSON.parse: every object of the document is a new object
ParseKeys(doc, keys, data, h) ==
    IF keys = <<>> THEN [data |-> data, heap |-> h]
    ELSE LET k == Head(keys)
         IN  IF doc[k].t = "jobject"
               THEN ParseKeys(doc, Tail(keys),
                              [data EXCEPT ![k] = Ref(Len(h) + 1)],
                              Append(h, JFields(doc[k])))
               ELSE ParseKeys(doc, Tail(keys),
                              [data EXCEPT ![k] = [t |-> doc[k].t, v |-> doc[k].v]],
                              h)

RECURSIVE Loaded(_, _, _)
\* the values initializeStorage read from the file, as the first changes of data
Loaded(doc, keys, h) ==
    IF keys = <<>> THEN <<>>
    ELSE LET k == Head(keys)
             val == IF doc[k].t = "jobject" THEN Ref(Len(h) + 1)
                    ELSE [t |-> doc[k].t, v |-> doc[k].v]
         IN  IF doc[k] = JAbsent THEN Loaded(doc, Tail(keys), h)
             ELSE <<[call |-> 0, op |-> "load", key |-> k, arg |-> Undef,
                     val |-> val]>>
                  \o Loaded(doc, Tail(keys),
                            IF doc[k].t = "jobject"
                              THEN Append(h, JFields(doc[k])) ELSE h)

ParseJsonContent(doc, h) ==
    ParseKeys(doc, KeyOrder, [k \in StoreKeys |-> Absent], h)

\* keys() without a prefix: Object.keys(data)
StoreKeysOf(data) == {k \in StoreKeys : data[k] # Absent}

\* get(key): data[key]
StoreGet(data, key) == IF data[key] = Absent THEN Undef ELSE data[key]

CompleteFile(doc) == [state |-> "complete", doc |-> doc]
CorruptFile == [state |-> "corrupt", doc |-> EmptyDoc]
TruncatedFile == [state |-> "partial", doc |-> EmptyDoc]
\* a file whose JSON root is not an object
NonObjectFile == [state |-> "nonobject", doc |-> EmptyDoc]

\* the stores created: the file they are pointed at, and options.atomic
JsonStores ==
    {<<AbsentFile, TRUE>>, <<AbsentFile, FALSE>>, <<CorruptFile, TRUE>>,
     <<NonObjectFile, TRUE>>,
     <<CompleteFile([EmptyDoc EXCEPT !["k1"] = JObj(Obj(Num(1), Absent))]),
       TRUE>>}

\* rename(tempPath, filePath): the file is the content of the temp file
AtomicWriteResult_Kept(file, content) == file
AtomicWriteResult(file, content) == CompleteFile(content)

\* writeFile(filePath, content) ends: it wrote into the file as it found it
DirectWriteResults(file, content) ==
    IF file.state = "partial"
      THEN {CompleteFile(content)}
      ELSE {CompleteFile(content), CorruptFile}

InFlight(call) == call.pc \in {"init", "write", "rename", "truncated"}

\* the catch block of persistData: the error names the path and wraps the
\* failure of the file operation
PersistError_NoCause(failure) ==
    StoreError("Error", <<"Failed to write to ", FilePath, ": ", failure>>, "")
PersistError(failure) ==
    StoreError("Error", <<"Failed to write to ", FilePath, ": ", failure>>,
               failure)

\* the message of the error mkdir, writeFile or rename threw
WriteFailure == "EACCES: permission denied"

\* the catch block of ensureInitialized: what the rejected initPromise holds
InitError(file) ==
    IF file.state = "corrupt"
      THEN StoreError("SyntaxError",
                      <<"Failed to parse JSON from ", FilePath>>, "SyntaxError")
    ELSE IF file.state = "nonobject"
      THEN StoreError("TypeError", <<"JSON root must be an object">>, "")
    ELSE StoreError("Error",
                    <<"Failed to initialize JSON store at ", FilePath>>,
                    "I/O error")

\* ensureInitialized: initPromise after the call; it is created once
EnsureInitialized_Retry(init) ==
    IF init \in {"none", "failed"} THEN "loading" ELSE init
EnsureInitialized(init) == IF init = "none" THEN "loading" ELSE init

\* set(key, val) or patch(key, partial) is called: it awaits ensureInitialized()
JsonCall(op, key, arg) ==
    /\ stKind = "json"
    /\ CallsMade < MaxJsonCalls
    /\ LET others == \E j \in 1..Len(stCalls) : InFlight(stCalls[j])
           marked == [j \in 1..Len(stCalls) |->
                        IF InFlight(stCalls[j])
                          THEN [stCalls[j] EXCEPT !.overlapped = TRUE]
                          ELSE stCalls[j]]
       IN  stCalls' = Append(marked,
              [pc |-> "init", op |-> op, key |-> key,
               arg |-> IF op = "set" THEN Stored(arg, heap) ELSE arg,
               val |-> Undef, content |-> EmptyDoc, seen |-> stData[key],
               overlapped |-> others, temp |-> "none", err |-> NoError])
    /\ heap' = IF op = "set" THEN HeapWith(arg, heap) ELSE heap
    /\ jWaiting' = Append(jWaiting, NextCall)
    /\ jInit' = EnsureInitialized(jInit)
    /\ UNCHANGED <<stKind, stData, stApplied, stPatched, stLast, jAtomic, jFile>>

\* initializeStorage returns: the file is read, or created as {}
JsonInitDone ==
    /\ stKind = "json"
    /\ jInit = "loading"
    /\ jFile.state \in {"absent", "complete"}
    /\ LET parsed == ParseJsonContent(jFile.doc, heap)
       IN  /\ stData' = parsed.data
           /\ heap' = parsed.heap
    /\ jFile' = IF jFile.state = "absent"
                  THEN IF jAtomic THEN AtomicWriteResult(jFile, EmptyDoc)
                       ELSE CompleteFile(EmptyDoc)
                  ELSE jFile
    /\ stApplied' = Loaded(jFile.doc, KeyOrder, heap)
    /\ jInit' = "ready"
    /\ UNCHANGED <<stKind, stCalls, stPatched, stLast, jAtomic, jWaiting>>

\* initializeStorage throws: the file cannot be read, parsed or created
JsonInitFails ==
    /\ stKind = "json"
    /\ jInit = "loading"
    /\ jInit' = "failed"
    /\ UNCHANGED <<heap, stKind, stData, stCalls, stApplied, stPatched, stLast,
                   jAtomic, jFile, jWaiting>>

\* the call at the head of the waiters resumes after await ensureInitialized()
\* and runs up to the first await of persistData
JsonResume ==
    /\ stKind = "json"
    /\ jWaiting # <<>>
    /\ jInit \in {"ready", "failed"}
    /\ LET i == Head(jWaiting)
           call == stCalls[i]
           out == IF call.op = "set"
                    THEN [err |-> "",
                          data |-> [stData EXCEPT ![call.key] = call.arg],
                          heap |-> heap, ret |-> Undef]
                    ELSE PatchOutcome(stData, heap, call.key, call.arg,
                                      PatchCurrent(call.seen, stData[call.key]))
           val == IF call.op = "set" THEN call.arg ELSE out.ret
       IN  IF jInit = "failed"
             THEN /\ stCalls' = [stCalls EXCEPT ![i].pc = "rejected",
                                                ![i].err = InitError(jFile)]
                  /\ UNCHANGED <<heap, stData, stApplied, stPatched, stLast>>
           ELSE IF out.err # ""
             THEN /\ stCalls' = [stCalls EXCEPT
                        ![i].pc = "rejected",
                        ![i].err = StoreError(ErrorClass(out.err),
                                              <<out.err>>, "")]
                  /\ stLast' = LastOf(call.op, i, call.key, call.arg, out.err,
                                      Undef)
                  /\ UNCHANGED <<heap, stData, stApplied, stPatched>>
           ELSE /\ heap' = out.heap
                /\ stData' = out.data
                /\ stCalls' = [stCalls EXCEPT
                      ![i].pc = "write", ![i].val = val,
                      ![i].content = Stringify(out.data, out.heap)]
                /\ stApplied' = Append(stApplied,
                      [call |-> i, op |-> call.op, key |-> call.key,
                       arg |-> call.arg, val |-> val])
                /\ stPatched' = [stPatched EXCEPT ![call.key] =
                      IF call.op = "set" THEN Absent ELSE out.ret]
                /\ stLast' = LastOf(call.op, i, call.key, call.arg, "", out.ret)
    /\ jWaiting' = Tail(jWaiting)
    /\ UNCHANGED <<stKind, jAtomic, jInit, jFile>>

\* atomicWrite: writeFile(tempPath, content) ends
JsonWriteTemp(i) ==
    /\ stKind = "json" /\ jAtomic
    /\ stCalls[i].pc = "write"
    /\ stCalls' = [stCalls EXCEPT ![i].pc = "rename", ![i].temp = "complete"]
    /\ UNCHANGED <<heap, stKind, stData, stApplied, stPatched, stLast, jAtomic,
                   jInit, jFile, jWaiting>>

\* atomicWrite: rename(tempPath, filePath) ends and the call resolves
JsonRename(i) ==
    /\ stKind = "json" /\ jAtomic
    /\ stCalls[i].pc = "rename"
    /\ jFile' = AtomicWriteResult(jFile, stCalls[i].content)
    /\ stCalls' = [stCalls EXCEPT ![i].pc = "resolved", ![i].temp = "none"]
    /\ UNCHANGED <<heap, stKind, stData, stApplied, stPatched, stLast, jAtomic,
                   jInit, jWaiting>>

\* atomic: false.  writeFile(filePath, content) opens the file and empties it
JsonTruncate(i) ==
    /\ stKind = "json" /\ ~jAtomic
    /\ stCalls[i].pc = "write"
    /\ jFile' = TruncatedFile
    /\ stCalls' = [stCalls EXCEPT ![i].pc = "truncated"]
    /\ UNCHANGED <<heap, stKind, stData, stApplied, stPatched, stLast, jAtomic,
                   jInit, jWaiting>>

\* atomic: false.  writeFile(filePath, content) ends and the call resolves
JsonWriteDone(i) ==
    /\ stKind = "json" /\ ~jAtomic
    /\ stCalls[i].pc = "truncated"
    /\ jFile' \in DirectWriteResults(jFile, stCalls[i].content)
    /\ stCalls' = [stCalls EXCEPT ![i].pc = "resolved"]
    /\ UNCHANGED <<heap, stKind, stData, stApplied, stPatched, stLast, jAtomic,
                   jInit, jWaiting>>

\* the catch block of atomicWrite: unlink(tempPath)
TempAfterCleanup_Left(temp) == temp
TempAfterCleanup(temp) == "none"

\* the write of the temp file, the rename or writeFile throws: atomicWrite
\* removes its temp file, persistData rethrows and the call rejects; the
\* mirror keeps the change, the file is as the failed step left it
JsonWriteFails(i) ==
    /\ stKind = "json"
    /\ \/ stCalls[i].pc \in {"rename", "truncated"}
       \/ stCalls[i].pc = "write" /\ jAtomic
    /\ stCalls' = [stCalls EXCEPT
          ![i].pc = "rejected",
          ![i].err = PersistError(WriteFailure),
          ![i].temp = IF ~jAtomic THEN @
                      ELSE TempAfterCleanup(IF stCalls[i].pc = "write"
                                              THEN "partial" ELSE @)]
    /\ UNCHANGED <<heap, stKind, stData, stApplied, stPatched, stLast, jAtomic,
                   jInit, jFile, jWaiting>>

\* get(key) on a store whose initPromise has settled
JsonGet(key) ==
    /\ stKind = "json"
    /\ jInit \in {"ready", "failed"}
    /\ IF jInit = "failed"
         THEN stLast' = LastOf("get", 0, key, Undef,
                               InitError(jFile).message[1], Undef)
         ELSE IF IsBlankKey(key)
         THEN stLast' = LastOf("get", 0, key, Undef,
                               "key must be a non-empty string", Undef)
         ELSE stLast' = LastOf("get", 0, key, Undef, "",
                               IF stData[key] = Absent THEN Undef
                               ELSE stData[key])
    /\ UNCHANGED <<heap, stKind, stData, stCalls, stApplied, stPatched,
                   jAtomic, jInit, jFile, jWaiting>>

\* set or patch with a key that is not a non-empty string, on an initialized store
JsonBlankKey(op, arg) ==
    /\ stKind = "json"
    /\ jInit = "ready"
    /\ stLast' = LastOf(op, 0, BlankKey, arg,
                        "key must be a non-empty string", Undef)
    /\ UNCHANGED <<heap, stKind, stData, stCalls, stApplied, stPatched,
                   jAtomic, jInit, jFile, jWaiting>>

JsonSetInputs   == {<<"k1", Lit(1)>>, <<"k2", Lit(3)>>, <<"k2", Undef>>}
JsonPatchInputs == {<<"k1", Lit(2)>>, <<"k1", Lit(3)>>, <<"k2", Lit(2)>>,
                    <<"k1", Null>>}

JsonNext ==
    \/ \E in \in JsonSetInputs : JsonCall("set", in[1], in[2])
    \/ \E in \in JsonPatchInputs : JsonCall("patch", in[1], in[2])
    \/ JsonInitDone
    \/ JsonInitFails
    \/ JsonResume
    \/ \E i \in 1..Len(stCalls) :
          \/ JsonWriteTemp(i)
          \/ JsonRename(i)
          \/ JsonTruncate(i)
          \/ JsonWriteDone(i)
          \/ JsonWriteFails(i)
    \/ \E k \in StoreKeys \cup {BlankKey} : JsonGet(k)
    \/ JsonBlankKey("patch", Lit(2))

StoreNext == MemNext \/ JsonNext

(***************************************************************************)
(* Claims about the state stores.                                          *)
(***************************************************************************)
AppliedAt(i) == CHOOSE j \in 1..Len(stApplied) : stApplied[j].call = i

\* no call has changed the key of call i after call i did
LatestOnKey(i) ==
    \A j \in 1..Len(stApplied) :
        j > AppliedAt(i) => stApplied[j].key # stCalls[i].key

\* the file is whole and holds, under the key of call i, the value call i wrote
FileHolds(i) ==
    /\ jFile.state = "complete"
    /\ jFile.doc[stCalls[i].key] = Jsonify(stCalls[i].val, heap)

\* no call made after call i has begun to write the file
NoLaterWrite(i) ==
    \A j \in 1..Len(stCalls) : j > i => stCalls[j].pc \in {"init", "write"}

\* C7 as stated: once a set or patch call on the JSON store has resolved, the
\* file contains the value the call wrote for its key until a later set or
\* patch changes that key, also when several calls are in flight at once.
JsonFileKeepsResolvedWrites ==
    stKind = "json" =>
        \A i \in 1..Len(stCalls) :
            (stCalls[i].pc = "resolved" /\ LatestOnKey(i)) => FileHolds(i)

\* C7: a set or patch call on the JSON store that resolved and during which no
\* other set or patch call of the store was in flight has its value in the
\* file until a later set or patch changes that key: always with atomic
\* writes; with atomic: false until a later call begins to write the file,
\* and again in every whole file written after that.
JsonFileKeepsSequentialWrites ==
    stKind = "json" =>
        \A i \in 1..Len(stCalls) :
            (/\ stCalls[i].pc = "resolved"
             /\ ~stCalls[i].overlapped
             /\ LatestOnKey(i))
            => /\ (jAtomic \/ NoLaterWrite(i)) => FileHolds(i)
               /\ jFile.state = "complete" =>
                     jFile.doc[stCalls[i].key] = Jsonify(stCalls[i].val, heap)

\* two calls one after the other, on different keys, both resolved, and the
\* file holds the values of both
JsonFileWitness ==
    /\ stKind = "json" /\ jAtomic
    /\ Len(stCalls) = 2
    /\ \A i \in {1, 2} : stCalls[i].pc = "resolved" /\ ~stCalls[i].overlapped
    /\ stCalls[1].key # stCalls[2].key
    /\ FileHolds(1) /\ FileHolds(2)

\* does the applied call e write the top-level field f of its key
Touches(e, f) ==
    e.op \in {"set", "load"} \/ PatchFields(e.arg)[f] \notin {Absent, Undef}

\* the value the applied call e gives to the field f it writes
Written(e, f) ==
    IF e.op = "patch" THEN PatchFields(e.arg)[f]
    ELSE IF e.val.t = "object" THEN heap[e.val.v][f]
    ELSE Absent

\* the field f of key k after the applied calls have run one after another
Sequential(k, f) ==
    LET writers == {j \in 1..Len(stApplied) :
                      stApplied[j].key = k /\ Touches(stApplied[j], f)}
    IN  IF writers = {} THEN Absent
        ELSE Written(stApplied[CHOOSE j \in writers :
                                  \A w \in writers : w <= j], f)

FieldNow(k, f) ==
    IF stData[k].t = "object" THEN heap[stData[k].v][f] ELSE Absent

\* C8: whatever the overlap of the set and patch calls on a store, the value
\* in memory of every key is the one obtained by running the calls one after
\* another, in the order of their synchronous parts: every top-level field
\* holds what the last call that wrote it gave it, so patches of different
\* fields of one key all survive.
StoreCallsAreIndivisible ==
    \A k \in StoreKeys :
        /\ \A f \in Fields : FieldNow(k, f) = Sequential(k, f)
        /\ \A j \in 1..Len(stApplied) :
              (/\ stApplied[j].key = k
               /\ \A l \in 1..Len(stApplied) : l > j => stApplied[l].key # k)
              => stData[k] = stApplied[j].val

\* two overlapping patches of the same key of the JSON store, { a: 2 } and
\* { b: 2 }, both in the value of the key
StoreOverlapWitness ==
    /\ stKind = "json"
    /\ Len(stCalls) = 2 /\ Len(stApplied) = 2
    /\ \A i \in {1, 2} :
          /\ stCalls[i].overlapped
          /\ stCalls[i].op = "patch" /\ stCalls[i].key = "k1"
    /\ stCalls[1].arg = Lit(2) /\ stCalls[2].arg = Lit(3)
    /\ FieldNow("k1", "a") = Num(2) /\ FieldNow("k1", "b") = Num(2)

\* the merge of the patch literal P into the empty object
MergedIntoEmpty(P) ==
    [f \in Fields |-> IF Literals[P.v][f] = Undef THEN Absent
                      ELSE Literals[P.v][f]]

IsPatch(l) == l.op \in {"patch", "applyStatePatch", "applyDeviceStatePatch"}

\* C10: in both stores a patch(key, P) of a key without a value does not fail
\* and stores the merge of P into the empty object; after a patch that
\* succeeded, get(key) returns the very value the patch returned for as long
\* as the key is not changed, and the patch changes no other key.
PatchCreatesAndGetReturns ==
    /\ (/\ IsPatch(stLast)
        /\ stLast.key \in StoreKeys
        /\ stLast.arg.t = "literal"
        /\ stLast.before[stLast.key] = Absent)
       => /\ stLast.err = ""
          /\ stLast.ret.t = "object"
          /\ heap[stLast.ret.v] = MergedIntoEmpty(stLast.arg)
    /\ (IsPatch(stLast) /\ stLast.err = "")
       => /\ stData[stLast.key] = stLast.ret
          /\ \A k \in StoreKeys \ {stLast.key} : stData[k] = stLast.before[k]
    /\ \A k \in StoreKeys : stPatched[k] # Absent => stData[k] = stPatched[k]
    /\ (/\ stLast.op = "get" /\ stLast.key \in StoreKeys
        /\ stPatched[stLast.key] # Absent)
       => stLast.ret = stPatched[stLast.key]

\* a patch of a key without a value on the JSON store, then a get of the key
PatchCreatesWitness ==
    /\ stKind = "json"
    /\ Len(stApplied) = 1
    /\ stApplied[1].op = "patch" /\ stApplied[1].arg = Lit(3)
    /\ stLast.op = "get" /\ stLast.key = stApplied[1].key
    /\ stLast.ret = stApplied[1].val
    /\ heap[stLast.ret.v] = Obj(Absent, Num(2))

RECURSIVE SnapshotAt(_)
\* the mirror after the first n changes made to it
SnapshotAt(n) ==
    IF n = 0 THEN [k \in StoreKeys |-> Absent]
    ELSE [SnapshotAt(n - 1) EXCEPT ![stApplied[n].key] = stApplied[n].val]

LoadedCount == Cardinality({n \in 1..Len(stApplied) : stApplied[n].op = "load"})

\* the file is one whole document that is the JSON of the mirror as it was
\* after the load or after one of the set or patch calls
FileIsSnapshot ==
    /\ jFile.state = "complete"
    /\ \E n \in LoadedCount..Len(stApplied) :
          jFile.doc = Stringify(SnapshotAt(n), heap)

JsonAtomicFileIsWhole ==
    (stKind = "json" /\ jAtomic) =>
       /\ jFile.state \in {"absent", "complete", "corrupt", "nonobject"}
       /\ jFile.state \in {"corrupt", "nonobject"} => jInit # "ready"
       /\ jFile.state = "absent" => jInit # "ready"
       /\ jInit = "ready" => FileIsSnapshot
       \* a temp file exists only for a call that is about to rename it
       /\ \A i \in 1..Len(stCalls) :
             stCalls[i].temp # "none" =>
                stCalls[i].pc = "rename" /\ stCalls[i].temp = "complete"

JsonAtomicStep ==
    (stKind = "json" /\ jAtomic) =>
       \* the file changes by the rename of a whole temp file, or is created
       /\ jFile' # jFile =>
            \/ \E i \in 1..Len(stCalls) :
                  /\ stCalls[i].pc = "rename" /\ stCalls[i].temp = "complete"
                  /\ stCalls'[i].pc = "resolved"
                  /\ jFile' = CompleteFile(stCalls[i].content)
            \/ /\ jFile.state = "absent" /\ jInit = "loading"
               /\ jFile' = CompleteFile(EmptyDoc)
       \* a write that fails leaves the file and removes the temp file
       /\ \A i \in 1..Len(stCalls) :
            (/\ stCalls[i].pc \in {"write", "rename"}
             /\ Len(stCalls') = Len(stCalls)
             /\ stCalls'[i].pc = "rejected")
            => jFile' = jFile /\ stCalls'[i].temp = "none"

JsonCallsCompletedInTurn ==
    /\ stKind = "json" /\ jInit = "ready"
    /\ jWaiting = <<>>
    /\ \A i \in 1..Len(stCalls) :
          /\ ~stCalls[i].overlapped
          /\ \/ stCalls[i].pc = "resolved"
             \/ /\ stCalls[i].pc = "rejected"
                /\ \A n \in 1..Len(stApplied) : stApplied[n].call # i

\* what a new store instance on the same path holds after its load
FreshStore == ParseJsonContent(jFile.doc, heap)

SameValuesInFreshStore ==
    \A k \in StoreKeys :
       Jsonify(StoreGet(FreshStore.data, k), FreshStore.heap)
         = Jsonify(StoreGet(stData, k), heap)

StoreKeepsObjectsStep ==
    /\ Len(heap') >= Len(heap)
    /\ \A r \in 1..Len(heap) : heap'[r] = heap[r]
    /\ (/\ Len(stApplied') = Len(stApplied) + 1
        /\ stApplied'[Len(stApplied')].op = "patch")
       => LET e == stApplied'[Len(stApplied')]
          IN  /\ e.val.t = "object"
              /\ e.val.v > Len(heap) /\ e.val.v <= Len(heap')
              /\ stData'[e.key] = e.val
              /\ \A k \in StoreKeys : stData[k] # e.val

\* C25: a state object that a caller handed to set or got from get or patch
\* is never modified by a later patch: each patch stores a fresh object for
\* its key, so the objects a caller holds keep their field values.
StorePatchNeverMutates == [][StoreKeepsObjectsStep]_vars

\* an object handed to set was patched twice: the key holds a third object,
\* and the object of the caller and the result of the first patch still
\* have their fields
StorePatchFreshWitness ==
    /\ stKind = "memory"
    /\ Len(stApplied) = 3
    /\ stApplied[1].op = "set" /\ stApplied[1].val.t = "object"
    /\ stApplied[2].op = "patch" /\ stApplied[3].op = "patch"
    /\ \A n \in 1..3 : stApplied[n].key = "k1"
    /\ stData["k1"] = stApplied[3].val
    /\ heap[stApplied[1].val.v] = Literals[1]
    /\ heap[stApplied[2].val.v] # heap[stApplied[1].val.v]
    /\ heap[stApplied[3].val.v] # heap[stApplied[2].val.v]

IsManagerPatch(l) == l.op \in {"applyStatePatch", "applyDeviceStatePatch"}

\* the step is a call of the device manager's patch with a patch that is
\* null, an array or no object, or with a blank deviceId
ManagerPatchWithBadArguments ==
    /\ stLast' # stLast
    /\ IsManagerPatch(stLast')
    /\ \/ stLast'.arg = Null \/ stLast'.arg = ArrayVal
       \/ stLast'.arg.t = "number"
       \/ stLast'.key \in {"", " "}

ManagerPatchRejectedStep ==
    ManagerPatchWithBadArguments
    => /\ ErrorClass(stLast'.err) = "TypeError"
       /\ stLast'.call = 0
       /\ stData' = stData /\ heap' = heap
       /\ stCalls' = stCalls /\ stApplied' = stApplied
       /\ stPatched' = stPatched

\* C26: applyStatePatch and the deprecated applyDeviceStatePatch reject with
\* a TypeError when the patch is null, an array or not an object, or when
\* deviceId is not a non-blank string, and then never call the store: the
\* stored state of every device is unchanged.
ManagerPatchRejectsBadArguments == [][ManagerPatchRejectedStep]_vars

\* an array patch for a device that has a stored state was rejected
ManagerPatchRejectedWitness ==
    /\ IsManagerPatch(stLast)
    /\ stLast.arg = ArrayVal /\ stLast.key = "k1"
    /\ stLast.err = "patch must be a plain object"
    /\ stData["k1"].t = "object"
    /\ stData = stLast.before

(***************************************************************************)
(* Adapter registry  (src/core/adapter-registry.ts)                        *)
(***************************************************************************)
AdapterNames == {"mqtt", " mqtt", "ble", "   "}
NoAdapter == 0
\* adapters that satisfy the contract, and one that does not: {}
ValidAdapters == {1, 2}
InvalidAdapter == 3

\* typeof name !== 'string' || name.trim().length === 0
IsBlankName(name) == name \in {"", " ", "   "}

\* the other values handed to register as the adapter
OtherAdapters == 4..9

REQUIRED_METHODS == <<"initialize", "start", "stop", "getDeviceState",
                      "executeCommand", "onDeviceStateChange">>
EXPECTED_PARAMS == 2

AllMethods == {REQUIRED_METHODS[i] : i \in 1..Len(REQUIRED_METHODS)}

\* what the checks read of a value: its typeof ("null" for null), its
\* property name, the properties that are functions, executeCommand.length,
\* and scanDevices ("absent", "function", or "other" for any other value)
Shape(kind, nameIsString, name, functions, params, scan) ==
    [kind |-> kind, nameIsString |-> nameIsString, name |-> name,
     functions |-> functions, params |-> params, scan |-> scan]

AdapterShapes ==
    <<Shape("object", TRUE, "mqtt", AllMethods, 2, "absent"),
      Shape("object", TRUE, "ble", AllMethods, 2, "function"),
      Shape("object", FALSE, "", {}, 0, "absent"),
      Shape("null", FALSE, "", {}, 0, "absent"),
      Shape("object", TRUE, " ", AllMethods, 2, "absent"),
      Shape("object", TRUE, "mqtt", AllMethods \ {"stop"}, 2, "absent"),
      Shape("object", TRUE, "mqtt", AllMethods, 1, "absent"),
      Shape("object", TRUE, "mqtt", AllMethods, 2, "other"),
      Shape("function", TRUE, "mqtt", AllMethods, 2, "absent")>>

ValidateAdapterName(shape) ==
    IF ~shape.nameIsString \/ IsBlankName(shape.name)
      THEN "Adapter must have a non-empty name property" ELSE ""

ValidateRequiredMethods(shape) ==
    IF \E i \in 1..Len(REQUIRED_METHODS) :
          REQUIRED_METHODS[i] \notin shape.functions
      THEN "Adapter must implement method as a function" ELSE ""

ValidateExecuteCommandParams(shape) ==
    IF "executeCommand" \in shape.functions /\ shape.params # EXPECTED_PARAMS
      THEN "executeCommand must accept exactly 2 parameters" ELSE ""

ValidateOptionalScanDevices_Off(shape) == ""
ValidateOptionalScanDevices(shape) ==
    IF shape.scan = "other"
      THEN "scanDevices, if present, must be a function" ELSE ""

\* ensureAdapterImplements: the message of the TypeError it throws, or ""
EnsureAdapterImplements(shape) ==
    IF shape.kind # "object" THEN "Adapter must be a non-null object"
    ELSE IF ValidateAdapterName(shape) # "" THEN ValidateAdapterName(shape)
    ELSE IF ValidateRequiredMethods(shape) # ""
      THEN ValidateRequiredMethods(shape)
    ELSE IF ValidateExecuteCommandParams(shape) # ""
      THEN ValidateExecuteCommandParams(shape)
    ELSE ValidateOptionalScanDevices(shape)

\* ensureAdapterImplements: does it throw
AdapterRejected(adapter) == EnsureAdapterImplements(AdapterShapes[adapter]) # ""

\* Map.prototype.has
MapHas(map, name) == \E i \in 1..Len(map) : map[i].name = name

\* Map.prototype.get, with NoAdapter for undefined
MapGet(map, name) ==
    IF MapHas(map, name)
      THEN map[CHOOSE i \in 1..Len(map) : map[i].name = name].adapter
      ELSE NoAdapter

\* Map.prototype.set: a new key goes last, a known key keeps its place
MapSet(map, name, adapter) ==
    IF MapHas(map, name)
      THEN [i \in 1..Len(map) |->
              IF map[i].name = name
                THEN [name |-> name, adapter |-> adapter] ELSE map[i]]
      ELSE Append(map, [name |-> name, adapter |-> adapter])

\* Array.from(adapters.keys())
MapKeys(map) == [i \in 1..Len(map) |-> map[i].name]

\* if (adapters.has(name)) throw new Error('... is already registered')
AlreadyRegistered_Off(map, name) == FALSE
AlreadyRegistered(map, name) == MapHas(map, name)

RegCall(op, name, adapter, err, ret) ==
    [op |-> op, name |-> name, adapter |-> adapter, err |-> err, ret |-> ret,
     before |-> adapters, bound |-> regBound]

RegInit ==
    /\ adapters = <<>>
    /\ regBound = [n \in AdapterNames |-> NoAdapter]
    /\ regLast = [op |-> "none", name |-> "", adapter |-> NoAdapter,
                  err |-> "", ret |-> <<>>, before |-> <<>>,
                  bound |-> [n \in AdapterNames |-> NoAdapter]]

Register(name, adapter) ==
    IF IsBlankName(name)
      THEN /\ regLast' = RegCall("register", name, adapter,
                                 "Adapter name must be a non-empty string", <<>>)
           /\ UNCHANGED <<adapters, regBound>>
    ELSE IF AlreadyRegistered(adapters, name)
      THEN /\ regLast' = RegCall("register", name, adapter,
                                 "is already registered", <<>>)
           /\ UNCHANGED <<adapters, regBound>>
    ELSE IF AdapterRejected(adapter)
      THEN /\ regLast' = RegCall("register", name, adapter,
                                 EnsureAdapterImplements(AdapterShapes[adapter]), <<>>)
           /\ UNCHANGED <<adapters, regBound>>
    ELSE /\ adapters' = MapSet(adapters, name, adapter)
         /\ regBound' = IF regBound[name] = NoAdapter
                          THEN [regBound EXCEPT ![name] = adapter]
                          ELSE regBound
         /\ regLast' = RegCall("register", name, adapter, "", <<>>)

RegistryGet(name) ==
    /\ regLast' = RegCall("get", name, NoAdapter, "", <<MapGet(adapters, name)>>)
    /\ UNCHANGED <<adapters, regBound>>

RegistryHas(name) ==
    /\ regLast' = RegCall("has", name, NoAdapter, "", <<MapHas(adapters, name)>>)
    /\ UNCHANGED <<adapters, regBound>>

RegistryList ==
    /\ regLast' = RegCall("list", "", NoAdapter, "", MapKeys(adapters))
    /\ UNCHANGED <<adapters, regBound>>

RegistryNext ==
    \/ \E n \in AdapterNames,
          a \in ValidAdapters \cup {InvalidAdapter} \cup OtherAdapters :
          Register(n, a)
    \/ \E n \in AdapterNames : RegistryGet(n)
    \/ \E n \in AdapterNames : RegistryHas(n)
    \/ RegistryList

\* C11: a name that register has bound to an adapter stays bound to it:
\* get returns that adapter and has returns true ever after, and every later
\* register of the name throws the already-registered error and leaves the
\* Map, and so the result of list, as it was.
RegistryBindingIsPermanent ==
    /\ \A n \in AdapterNames :
          regBound[n] # NoAdapter =>
             /\ MapGet(adapters, n) = regBound[n]
             /\ MapHas(adapters, n)
    /\ (regLast.op = "get" /\ regLast.bound[regLast.name] # NoAdapter)
          => regLast.ret = <<regLast.bound[regLast.name]>>
    /\ (regLast.op = "has" /\ regLast.bound[regLast.name] # NoAdapter)
          => regLast.ret = <<TRUE>>
    /\ (/\ regLast.op = "register" /\ ~IsBlankName(regLast.name)
        /\ regLast.bound[regLast.name] # NoAdapter)
          => /\ regLast.err = "is already registered"
             /\ adapters = regLast.before
             /\ MapKeys(adapters) = MapKeys(regLast.before)
    /\ \A i \in 1..Len(regLast.before) :
          /\ i <= Len(adapters)
          /\ adapters[i] = regLast.before[i]

\* "mqtt" is bound to adapter 1, a register of "mqtt" with adapter 2 was
\* refused, other names were registered since
RegistryWitness ==
    /\ regBound["mqtt"] = 1
    /\ Len(adapters) = 3
    /\ regLast.op = "register" /\ regLast.name = "mqtt" /\ regLast.adapter = 2
    /\ regLast.err = "is already registered"
    /\ MapGet(adapters, "mqtt") = 1

\* the adapter is a non-null object with a non-blank string name, with the
\* six methods as functions, an executeCommand of 2 parameters, and
\* scanDevices absent or a function
AdapterConforms(shape) ==
    /\ shape.kind = "object"
    /\ shape.nameIsString /\ shape.name \notin {"", " ", "   "}
    /\ {"initialize", "start", "stop", "getDeviceState", "executeCommand",
        "onDeviceStateChange"} \subseteq shape.functions
    /\ shape.params = 2
    /\ shape.scan \in {"absent", "function"}

RegisterShouldSucceed(l) ==
    /\ l.name \notin {"", " ", "   "}
    /\ ~MapHas(l.before, l.name)
    /\ AdapterConforms(AdapterShapes[l.adapter])

\* C31: register(name, adapter) succeeds if and only if name is a non-blank
\* string not yet registered and the adapter satisfies the contract; on
\* success the name is appended at the end of list(); otherwise register
\* throws (a TypeError for name or contract violations) and get, has and
\* list are unchanged.
RegisterSucceedsIffValid ==
    regLast.op = "register" =>
       /\ regLast.err = "" <=> RegisterShouldSucceed(regLast)
       /\ RegisterShouldSucceed(regLast) =>
             /\ MapKeys(adapters) = Append(MapKeys(regLast.before), regLast.name)
             /\ MapGet(adapters, regLast.name) = regLast.adapter
             /\ \A i \in 1..Len(regLast.before) : adapters[i] = regLast.before[i]
       /\ ~RegisterShouldSucceed(regLast) =>
             /\ adapters = regLast.before
             /\ \/ MapHas(regLast.before, regLast.name)
                \/ regLast.err \notin {"", "is already registered"}

\* an adapter with a scanDevices function was registered as the second
\* entry after one without
RegisterSucceedsWitness ==
    /\ regLast.op = "register" /\ regLast.err = ""
    /\ regLast.adapter = 2 /\ AdapterShapes[2].scan = "function"
    /\ Len(regLast.before) = 1
    /\ MapKeys(adapters) = <<regLast.before[1].name, regLast.name>>


(***************************************************************************)
(* Drain loop  (tests/integration/command-queue-adapter.spec.ts)           *)
(*                                                                         *)
(*   while (queue.size() > 0) {                                            *)
(*     const command = queue.dequeue();                                    *)
(*     try { await withRetry(() => adapter.executeCommand(...)) } catch {} *)
(*   }                                                                     *)
(*                                                                         *)
(* The queue and withRetry are the ones above; other callers may enqueue   *)
(* while the loop awaits.                                                  *)
(***************************************************************************)
DrainCapacity == 100
Commands == 1..MaxDrainCmds
DrainRetries == 0..MaxDrainRetries

DrainEvent(ev, cmd, attempt, ok) ==
    [ev |-> ev, cmd |-> cmd, attempt |-> attempt, ok |-> ok]

\* the catch block around the execution: the loop goes on
AfterRejection_Abort == "done"
AfterRejection == "loop"

DrInit ==
    /\ dQueue = <<>>
    /\ dPc = "loop"
    /\ dRetries = 0
    /\ dCmd = Undefined
    /\ dAttempt = 0
    /\ dTrace = <<>>

DrainEnqueued == {dTrace[i].cmd : i \in {j \in 1..Len(dTrace) : dTrace[j].ev = "enq"}}

\* a caller enqueues a command, before the loop or while it awaits; the
\* commands are numbered as they are enqueued
DrainEnqueue(cmd) ==
    /\ dPc # "done"
    /\ cmd = Cardinality(DrainEnqueued) + 1
    /\ ~QueueIsFull(dQueue, DrainCapacity)
    /\ dQueue' = Append(dQueue, cmd)
    /\ dTrace' = Append(dTrace, DrainEvent("enq", cmd, 0, TRUE))
    /\ UNCHANGED <<dPc, dRetries, dCmd, dAttempt>>

\* the test of the while and, if it passes, the dequeue and the first attempt
DrainStep ==
    /\ dPc = "loop"
    /\ IF Len(dQueue) > 0
         THEN /\ dCmd' = ShiftResult(dQueue)
              /\ dQueue' = ShiftRest(dQueue)
              /\ dAttempt' = 1
              /\ dPc' = "attempt"
              /\ dTrace' = Append(dTrace,
                    DrainEvent("start", ShiftResult(dQueue), 1, TRUE))
         ELSE /\ dPc' = "done"
              /\ UNCHANGED <<dQueue, dCmd, dAttempt, dTrace>>
    /\ UNCHANGED dRetries

\* executeCommand resolves: withRetry resolves and the loop goes on
DrainOpResolves ==
    /\ dPc = "attempt"
    /\ dTrace' = Append(dTrace, DrainEvent("end", dCmd, dAttempt, TRUE))
    /\ dPc' = "loop"
    /\ UNCHANGED <<dQueue, dRetries, dCmd, dAttempt>>

\* executeCommand rejects: withRetry sleeps, or rejects after the last attempt
DrainOpRejects ==
    /\ dPc = "attempt"
    /\ dTrace' = Append(dTrace, DrainEvent("end", dCmd, dAttempt, FALSE))
    /\ dPc' = IF IsLastAttempt(dAttempt, MaxAttempts(Int2Num(dRetries)))
                THEN AfterRejection ELSE "sleep"
    /\ UNCHANGED <<dQueue, dRetries, dCmd, dAttempt>>

\* the sleep of withRetry ends and the next attempt starts
DrainSleepElapses ==
    /\ dPc = "sleep"
    /\ dAttempt' = dAttempt + 1
    /\ dPc' = "attempt"
    /\ dTrace' = Append(dTrace, DrainEvent("start", dCmd, dAttempt + 1, TRUE))
    /\ UNCHANGED <<dQueue, dRetries, dCmd>>

DrainNext ==
    \/ \E cmd \in Commands : DrainEnqueue(cmd)
    \/ DrainStep
    \/ DrainOpResolves
    \/ DrainOpRejects
    \/ DrainSleepElapses

RECURSIVE DrainSelect(_, _)
\* the commands of the events of kind ev with attempt number 0 or 1, in order
DrainSelect(trace, ev) ==
    IF trace = <<>> THEN <<>>
    ELSE IF Head(trace).ev = ev /\ Head(trace).attempt <= 1
      THEN <<Head(trace).cmd>> \o DrainSelect(Tail(trace), ev)
      ELSE DrainSelect(Tail(trace), ev)

RECURSIVE DrainAttempts(_)
\* the starts and ends of the attempts, in order
DrainAttempts(trace) ==
    IF trace = <<>> THEN <<>>
    ELSE IF Head(trace).ev = "enq" THEN DrainAttempts(Tail(trace))
    ELSE <<Head(trace)>> \o DrainAttempts(Tail(trace))

\* is e the end of the last attempt of a command
DrainFinalEnd(e) ==
    /\ e.ev = "end"
    /\ e.ok \/ e.attempt = dRetries + 1

DEFAULT_START_PORT == 1883
MAX_PORT_ATTEMPTS == 10

\* findAvailablePort: the port of attempt i
CandidatePort_Same(basePort, i) == basePort
CandidatePort(basePort, i) == basePort + i

BrokerPorts == bStartPort..(bStartPort + MAX_PORT_ATTEMPTS - 1)

\* the brokers created: the start port given or defaulted, and what other
\* processes hold: nothing, the first port, the first two ports, the whole
\* range
BrokerSetups ==
    {[startPort |-> DEFAULT_START_PORT, foreign |-> {}],
     [startPort |-> DEFAULT_START_PORT, foreign |-> {DEFAULT_START_PORT}],
     [startPort |-> 1885, foreign |-> {1885, 1886}],
     [startPort |-> DEFAULT_START_PORT,
      foreign |-> DEFAULT_START_PORT..(DEFAULT_START_PORT + MAX_PORT_ATTEMPTS - 1)]}

NullState == [aedesInstance |-> 0, server |-> 0, actualPort |-> 0]

\* testPort / server.listen: the port can be bound
PortFree(port) ==
    /\ port \notin bForeign
    /\ \A l \in bLive : l.port # port

\* the guard of start()
StartRejected_Never(started) == FALSE
StartRejected(started) == started

\* the guard of stop()
StopReturnsEarly_Never(started, st) == FALSE
StopReturnsEarly(started, st) ==
    ~started \/ st.aedesInstance = 0 \/ st.server = 0

\* getPort(): state.actualPort, or BrokerNotStarted when it throws
BrokerNotStarted == -1
GetPort == IF ~isStarted THEN BrokerNotStarted ELSE bState.actualPort

\* getConnectionUrl(): `mqtt://${host}:${state.actualPort}`, or no URL when
\* it throws 'Broker not started yet'
DEFAULT_HOST == "127.0.0.1"
GetConnectionUrl ==
    IF ~isStarted THEN [threw |-> TRUE, url |-> <<>>]
    ELSE [threw |-> FALSE, url |-> <<"mqtt://", DEFAULT_HOST, ":", bState.actualPort>>]

BrokerEvent(ev, id, port) ==
    [ev |-> ev, id |-> id, port |-> port, started |-> isStarted,
     inFlight |-> {c.id : c \in bCalls}, probed |-> <<>>]

\* the settlement of the start() call c, with the answers testPort gave it
StartSettled(ev, c, port, probed) ==
    [BrokerEvent(ev, c.id, port) EXCEPT !.probed = probed]

BrInit ==
    /\ isStarted = FALSE
    /\ bState = NullState
    /\ bLive = {}
    /\ bForeign = {}
    /\ bStartPort = DEFAULT_START_PORT
    /\ bCalls = {}
    /\ bNextId = 1
    /\ bTrace = <<>>

\* start() up to its first await
BrokerStart ==
    /\ bNextId <= MaxBrokerCalls
    /\ bNextId' = bNextId + 1
    /\ IF StartRejected(isStarted)
         THEN /\ bTrace' = Append(bTrace,
                    BrokerEvent("startRejected", bNextId, 0))
              /\ UNCHANGED bCalls
         ELSE /\ bCalls' = bCalls \cup
                    {[id |-> bNextId, op |-> "start", pc |-> "probe",
                      i |-> 0, port |-> 0, probed |-> <<>>]}
              /\ bTrace' = Append(bTrace, BrokerEvent("start", bNextId, 0))
    /\ UNCHANGED <<isStarted, bState, bLive, bForeign, bStartPort>>

\* findAvailablePort: one testPort has answered
BrokerProbe(c) ==
    /\ c \in bCalls /\ c.op = "start" /\ c.pc = "probe"
    /\ LET port == CandidatePort(bStartPort, c.i)
           seen == Append(c.probed, [port |-> port, free |-> PortFree(port)])
       IN
       IF PortFree(port)
         THEN /\ bCalls' = (bCalls \ {c}) \cup
                    {[c EXCEPT !.pc = "listen", !.port = port,
                               !.probed = seen]}
              /\ UNCHANGED bTrace
         ELSE IF c.i + 1 < MAX_PORT_ATTEMPTS
         THEN /\ bCalls' = (bCalls \ {c}) \cup
                    {[c EXCEPT !.i = c.i + 1, !.probed = seen]}
              /\ UNCHANGED bTrace
         ELSE /\ bCalls' = bCalls \ {c}
              /\ bTrace' = Append(bTrace,
                    StartSettled("startFailed", c, 0, seen))
    /\ UNCHANGED <<isStarted, bState, bLive, bForeign, bStartPort, bNextId>>

\* createAndConfigureBroker has settled: the listener is open and start()
\* records it, or listen failed and start() rejects
BrokerListen(c) ==
    /\ c \in bCalls /\ c.op = "start" /\ c.pc = "listen"
    /\ bCalls' = bCalls \ {c}
    /\ IF PortFree(c.port)
         THEN /\ bLive' = bLive \cup {[id |-> c.id, port |-> c.port]}
              /\ bState' = [aedesInstance |-> c.id, server |-> c.id,
                            actualPort |-> c.port]
              /\ isStarted' = TRUE
              /\ bTrace' = Append(bTrace,
                    StartSettled("startDone", c, c.port, c.probed))
         ELSE /\ bTrace' = Append(bTrace,
                    StartSettled("startFailed", c, c.port, c.probed))
              /\ UNCHANGED <<isStarted, bState, bLive>>
    /\ UNCHANGED <<bForeign, bStartPort, bNextId>>

\* stop() up to its first await
BrokerStop ==
    /\ bNextId <= MaxBrokerCalls
    /\ bNextId' = bNextId + 1
    /\ IF StopReturnsEarly(isStarted, bState)
         THEN /\ bTrace' = Append(bTrace, BrokerEvent("stopNoop", bNextId, 0))
              /\ UNCHANGED <<isStarted, bCalls>>
         ELSE /\ isStarted' = FALSE
              /\ bCalls' = bCalls \cup
                    {[id |-> bNextId, op |-> "stop", pc |-> "closeAedes",
                      i |-> bState.server, port |-> bState.actualPort,
                      probed |-> <<>>]}
              /\ bTrace' = Append(bTrace,
                    BrokerEvent("stop", bNextId, bState.actualPort))
    /\ UNCHANGED <<bState, bLive, bForeign, bStartPort>>

\* closeAedes has resolved and server.close() is called: the saved server
\* stops listening
BrokerAedesClosed(c) ==
    /\ c \in bCalls /\ c.op = "stop" /\ c.pc = "closeAedes"
    /\ bCalls' = (bCalls \ {c}) \cup {[c EXCEPT !.pc = "closeServer"]}
    /\ bLive' = {l \in bLive : l.id # c.i}
    /\ UNCHANGED <<isStarted, bState, bForeign, bStartPort, bNextId, bTrace>>

\* the callback of server.close(): the finally block clears the state and
\* stop() resolves
BrokerServerClosed(c) ==
    /\ c \in bCalls /\ c.op = "stop" /\ c.pc = "closeServer"
    /\ bCalls' = bCalls \ {c}
    /\ bState' = NullState
    /\ bTrace' = Append(bTrace, BrokerEvent("stopDone", c.id, c.port))
    /\ UNCHANGED <<isStarted, bLive, bForeign, bStartPort, bNextId>>

BrokerNext ==
    \/ BrokerStart
    \/ BrokerStop
    \/ \E c \in bCalls : BrokerProbe(c)
    \/ \E c \in bCalls : BrokerListen(c)
    \/ \E c \in bCalls : BrokerAedesClosed(c)
    \/ \E c \in bCalls : BrokerServerClosed(c)

(***************************************************************************)
(* Claims about the embedded broker.                                       *)
(***************************************************************************)
IsStartCall(e) == e.ev \in {"start", "startRejected"}
IsStartEvent(e) ==
    e.ev \in {"start", "startRejected", "startDone", "startFailed"}

BrokerStartWhileStarted ==
    (/\ isStarted
     /\ Len(bTrace') = Len(bTrace) + 1
     /\ IsStartCall(bTrace'[Len(bTrace')]))
    => /\ bTrace'[Len(bTrace')].ev = "startRejected"
       /\ GetPort' = GetPort
       /\ UNCHANGED <<isStarted, bState, bLive, bCalls>>

\* the stop() that completed at event j ran alone: it was called at event k
\* with no other call under way, and no start() was called before it
\* completed
StopRanAlone(k, j) ==
    /\ k < j
    /\ bTrace[k].ev = "stop" /\ bTrace[k].id = bTrace[j].id
    /\ bTrace[k].inFlight = {}
    /\ \A n \in (k + 1)..(j - 1) : ~IsStartEvent(bTrace[n])

\* the event that settles the call of event j, or 0 while it is pending
SettledAt(j) ==
    IF \E n \in (j + 1)..Len(bTrace) :
          bTrace[n].id = bTrace[j].id /\ bTrace[n].ev \in {"startDone", "startFailed"}
      THEN CHOOSE n \in (j + 1)..Len(bTrace) :
          bTrace[n].id = bTrace[j].id /\ bTrace[n].ev \in {"startDone", "startFailed"}
      ELSE 0

BrokerRestartsAfterStop ==
    \A j \in 1..Len(bTrace) :
      (/\ bTrace[j].ev = "stopDone"
       /\ \E k \in 1..j : StopRanAlone(k, j)
       /\ j < Len(bTrace)
       /\ IsStartCall(bTrace[j + 1]))
      => /\ bTrace[j + 1].ev = "start"
         /\ (SettledAt(j + 1) # 0 /\ bTrace[j + 1].inFlight = {}
               /\ \A n \in (j + 2)..SettledAt(j + 1) : ~IsStartCall(bTrace[n]))
            => /\ bTrace[SettledAt(j + 1)].ev = "startDone"
               /\ bTrace[SettledAt(j + 1)].port \in BrokerPorts \ bForeign

\* C20: start() on a broker that is already started rejects with 'Embedded
\* MQTT broker is already started' and leaves the listener, the recorded
\* state and the port that getPort() reports unchanged; a start() called
\* after a stop() has completed is accepted and, run on its own, resolves
\* with the broker listening again on a port of the range.
BrokerDoubleStartRejected ==
    /\ [][BrokerStartWhileStarted]_vars
    /\ []BrokerRestartsAfterStop

\* a started broker refused a second start(), was stopped, and started
\* again on its port, which other processes had left as the second of the
\* range
BrokerRestartWitness ==
    /\ Len(bTrace) >= 6
    /\ isStarted
    /\ bForeign = {DEFAULT_START_PORT}
    /\ GetPort = DEFAULT_START_PORT + 1
    /\ bTrace[Len(bTrace)].ev = "startDone"
    /\ \E j \in 3..Len(bTrace) :
         /\ bTrace[j].ev = "stopDone"
         /\ \E k \in 1..j : StopRanAlone(k, j)
         /\ \E r \in 1..j : bTrace[r].ev = "startRejected"
         /\ j + 2 = Len(bTrace)
    /\ bLive = {[id |-> bState.server, port |-> GetPort]}

(***************************************************************************)
(* Resource URIs and the device manager.  A string is a sequence of        *)
(* characters; "U4E2D" stands for one CJK ideograph.                       *)
(***************************************************************************)
MaxTextLen == 3       \* longest location handed to buildDeviceResourceUri
MaxDeviceCalls == 4   \* registerDevice calls and state changes per behaviour

DEFAULT_MAX_STRING_LENGTH == 256

Chars == {"a", "B", "1", " ", "-", "_", "U4E2D"}

RECURSIVE TextsUpTo(_)
TextsUpTo(n) ==
    IF n = 0 THEN {<<>>}
    ELSE LET shorter == TextsUpTo(n - 1)
         IN  shorter \cup {Append(s, c) : s \in shorter, c \in Chars}

IsWhitespace(c) == c = " "

\* String.prototype.trim
RECURSIVE TrimStart(_)
TrimStart(s) ==
    IF s # <<>> /\ IsWhitespace(Head(s)) THEN TrimStart(Tail(s)) ELSE s

RECURSIVE TrimEnd(_)
TrimEnd(s) ==
    IF s # <<>> /\ IsWhitespace(s[Len(s)])
      THEN TrimEnd(SubSeq(s, 1, Len(s) - 1)) ELSE s

Trim(s) == TrimEnd(TrimStart(s))

\* String.prototype.toLowerCase
LowerChar(c) == IF c = "A" THEN "a" ELSE IF c = "B" THEN "b" ELSE c
ToLowerCase(s) == [i \in 1..Len(s) |-> LowerChar(s[i])]

\* [a-z0-9\u4e00-\u9fff]
IsSlugChar(c) == c \in {"a", "b", "1", "U4E2D"}

\* .replace(/[^a-z0-9\u4e00-\u9fff]/g, '-')
ReplaceOthers(s) == [i \in 1..Len(s) |-> IF IsSlugChar(s[i]) THEN s[i] ELSE "-"]

\* .replace(/-+/g, '-')
RECURSIVE CollapseHyphens(_)
CollapseHyphens(s) ==
    IF Len(s) < 2 THEN s
    ELSE IF s[1] = "-" /\ s[2] = "-" THEN CollapseHyphens(Tail(s))
    ELSE <<s[1]>> \o CollapseHyphens(Tail(s))

\* .replace(/^-|-$/g, '')
StripEdgeHyphens(s) ==
    LET a == IF s # <<>> /\ Head(s) = "-" THEN Tail(s) ELSE s
    IN  IF a # <<>> /\ a[Len(a)] = "-" THEN SubSeq(a, 1, Len(a) - 1) ELSE a

ToKebabCase(input) ==
    StripEdgeHyphens(CollapseHyphens(ReplaceOthers(ToLowerCase(Trim(input)))))

\* assertNonEmptyString(name, value) for a value that is a string: [err, val]
AssertNonEmptyString(value) ==
    IF Len(value) = 0 THEN [err |-> "cannot be empty", val |-> <<>>]
    ELSE IF Len(Trim(value)) = 0 THEN [err |-> "must be non-empty", val |-> <<>>]
    ELSE IF Len(Trim(value)) > DEFAULT_MAX_STRING_LENGTH
      THEN [err |-> "exceeds maximum length", val |-> <<>>]
    ELSE [err |-> "", val |-> Trim(value)]

UriPrefix == <<"i", "o", "t", ":", "/", "/", "h", "o", "m", "e", "/">>
UriSuffix == <<"/", "s", "t", "a", "t", "e">>

UriOf(locationSlug, nameSlug) ==
    UriPrefix \o locationSlug \o <<"/">> \o nameSlug \o UriSuffix

\* buildDeviceResourceUri(input): [err, uri]
BuildDeviceResourceUri(input) ==
    LET location == AssertNonEmptyString(input.location)
        friendlyName == AssertNonEmptyString(input.friendlyName)
    IN  IF location.err # "" THEN [err |-> location.err, uri |-> <<>>]
        ELSE IF friendlyName.err # ""
          THEN [err |-> friendlyName.err, uri |-> <<>>]
        ELSE [err |-> "",
              uri |-> UriOf(ToKebabCase(location.val),
                            ToKebabCase(friendlyName.val))]

UriInput(location, friendlyName) ==
    [location |-> location, friendlyName |-> friendlyName]

NameSamples == {<<"a", "B">>, <<" ">>, <<"_", "1", "-", "-", "a", " ">>,
                <<"U4E2D", " ", "B">>}

UriIdle == [err |-> "idle", uri |-> <<>>]

BuildUriCall ==
    /\ uriOut = UriIdle
    /\ uriOut' = BuildDeviceResourceUri(uriIn)
    /\ UNCHANGED <<devices, dmStates, dmCalls, dmLast, uriIn>>

UriNext == BuildUriCall

(***************************************************************************)
(* Device manager.                                                         *)
(***************************************************************************)
Device(id, friendlyName, location) ==
    [id |-> id, friendlyName |-> friendlyName, location |-> location,
     type |-> "light"]

NoDevice == Device("", <<>>, <<>>)

\* the devices callers register: two whose URIs coincide, a second version
\* of the first, one with a blank location, and two with a blank id
DeviceInputs ==
    {Device("d1", <<"a", "B">>, <<"B", "1">>),
     Device("d1", <<"1">>, <<"B", "1">>),
     Device("d2", <<"A", "b">>, <<"b", "1", "_">>),
     Device("d3", <<"a">>, <<" ">>),
     Device(" ", <<"a">>, <<"a">>),
     Device("", <<"a">>, <<"a">>)}

DeviceIds == {"d1", "d2", "d3"}

\* what the store holds for a device: nothing, an object, or the number 0
DeviceStateInputs == {Ref(1), Ref(3), Num(0)}

Filter(given, text) == [given |-> given, text |-> text]
NoFilter == Filter(FALSE, <<>>)
FilterInputs == {NoFilter, Filter(TRUE, <<>>), Filter(TRUE, <<"b", "1">>),
                 Filter(TRUE, <<"/", "1", "/">>), Filter(TRUE, <<"x">>)}

UriInputs == {UriOf(<<"b", "1">>, <<"a", "b">>), UriOf(<<"b", "1">>, <<"1">>),
              UriOf(<<"x">>, <<"a">>)}

\* String.prototype.includes
Includes(text, part) ==
    \E i \in 0..(Len(text) - Len(part)) : SubSeq(text, i + 1, i + Len(part)) = part

\* Map.prototype.set on the Map in insertion order
MapSetDevice_Front(devs, device) ==
    IF \E i \in 1..Len(devs) : devs[i].id = device.id
      THEN [i \in 1..Len(devs) |-> IF devs[i].id = device.id THEN device
                                   ELSE devs[i]]
      ELSE <<device>> \o devs
MapSetDevice(devs, device) ==
    IF \E i \in 1..Len(devs) : devs[i].id = device.id
      THEN [i \in 1..Len(devs) |-> IF devs[i].id = device.id THEN device
                                   ELSE devs[i]]
      ELSE Append(devs, device)

\* !device.id || device.id.trim().length === 0
InvalidDeviceId(id) == id \in {"", " "}

\* the condition `state ?` of the resource text
IsTruthyState(state) == state \notin {Absent, Undef, Null, Num(0)}

EmptyObjectText == JObj(EmptyObject)

\* state ? JSON.stringify(state, null, JSON_INDENT_SPACES) : '{}'
ResourceText(state) ==
    IF IsTruthyState(state) THEN Jsonify(state, Literals) ELSE EmptyObjectText

ResourceView(uri, device, state) ==
    [uri |-> uri, name |-> device.friendlyName,
     title |-> <<device.location, device.friendlyName>>,
     description |-> device.type, mimeType |-> "application/json",
     text |-> ResourceText(state)]

DeviceUri(device) ==
    BuildDeviceResourceUri(UriInput(device.location, device.friendlyName))

\* the first error of buildDeviceResourceUri over the devices in order, or ""
RECURSIVE FirstUriError(_)
FirstUriError(devs) ==
    IF devs = <<>> THEN ""
    ELSE IF DeviceUri(Head(devs)).err # "" THEN DeviceUri(Head(devs)).err
    ELSE FirstUriError(Tail(devs))

\* typeof filter === 'string' && filter.length > 0 && !uri.includes(filter)
FilteredOut(filter, uri) ==
    filter.given /\ Len(filter.text) > 0 /\ ~Includes(uri, filter.text)

\* devices.find(...): the index of the match, 0 for none, -1 when
\* buildDeviceResourceUri throws before a match
FindDevice_Last(devs, uri) ==
    IF \E i \in 1..Len(devs) : DeviceUri(devs[i]).err # "" THEN -1
    ELSE IF \E i \in 1..Len(devs) : DeviceUri(devs[i]).uri = uri
      THEN CHOOSE i \in 1..Len(devs) :
             /\ DeviceUri(devs[i]).uri = uri
             /\ \A j \in (i + 1)..Len(devs) : DeviceUri(devs[j]).uri # uri
    ELSE 0
FindDevice(devs, uri) ==
    LET Stops(i) == DeviceUri(devs[i]).err # "" \/ DeviceUri(devs[i]).uri = uri
    IN  IF \E i \in 1..Len(devs) : Stops(i)
          THEN LET first == CHOOSE i \in 1..Len(devs) :
                               Stops(i) /\ \A j \in 1..(i - 1) : ~Stops(j)
               IN  IF DeviceUri(devs[first]).err # "" THEN -1 ELSE first
          ELSE 0

DmLastOf(op, device, filter, uri, err, ret) ==
    [op |-> op, device |-> device, filter |-> filter, uri |-> uri,
     err |-> err, ret |-> ret]

NoDmLast == DmLastOf("none", NoDevice, NoFilter, <<>>, "", <<>>)

DmInit ==
    /\ devices = <<>>
    /\ dmStates = [id \in DeviceIds |-> Absent]
    /\ dmCalls = 0
    /\ dmLast = NoDmLast
    /\ uriIn = UriInput(<<>>, <<>>)
    /\ uriOut = UriIdle

RegisterDevice(device) ==
    /\ IF InvalidDeviceId(device.id)
         THEN /\ dmLast' = DmLastOf("registerDevice", device, NoFilter, <<>>,
                                    "Device id must be a non-empty string", <<>>)
              /\ UNCHANGED <<devices, dmCalls>>
         ELSE /\ dmCalls < MaxDeviceCalls
              /\ devices' = MapSetDevice(devices, device)
              /\ dmCalls' = dmCalls + 1
              /\ dmLast' = DmLastOf("registerDevice", device, NoFilter, <<>>,
                                    "", <<>>)
    /\ UNCHANGED <<dmStates, uriIn, uriOut>>

\* a write of the state store under a device id
DeviceStateStored(id, state) ==
    /\ dmCalls < MaxDeviceCalls
    /\ dmStates[id] # state
    /\ dmStates' = [dmStates EXCEPT ![id] = state]
    /\ dmCalls' = dmCalls + 1
    /\ dmLast' = DmLastOf("store", Device(id, <<>>, <<>>), NoFilter, <<>>,
                          "", <<>>)
    /\ UNCHANGED <<devices, uriIn, uriOut>>

GetDeviceStates(filter) ==
    /\ IF FirstUriError(devices) # ""
         THEN dmLast' = DmLastOf("getDeviceStates", NoDevice, filter, <<>>,
                                 FirstUriError(devices), <<>>)
         ELSE LET Kept(device) == ~FilteredOut(filter, DeviceUri(device).uri)
                  filteredDevices == SelectSeq(devices, Kept)
              IN  dmLast' = DmLastOf("getDeviceStates", NoDevice, filter, <<>>,
                     "", [i \in 1..Len(filteredDevices) |->
                            ResourceView(DeviceUri(filteredDevices[i]).uri,
                                         filteredDevices[i],
                                         dmStates[filteredDevices[i].id])])
    /\ UNCHANGED <<devices, dmStates, dmCalls, uriIn, uriOut>>

ReadDeviceResource(uri) ==
    /\ LET found == FindDevice(devices, uri)
       IN  IF found = -1
             THEN dmLast' = DmLastOf("readDeviceResource", NoDevice, NoFilter,
                                     uri, FirstUriError(devices), <<>>)
           ELSE IF found = 0
             THEN dmLast' = DmLastOf("readDeviceResource", NoDevice, NoFilter,
                                     uri, "", <<>>)
           ELSE dmLast' = DmLastOf("readDeviceResource", NoDevice, NoFilter,
                    uri, "", <<ResourceView(uri, devices[found],
                                            dmStates[devices[found].id])>>)
    /\ UNCHANGED <<devices, dmStates, dmCalls, uriIn, uriOut>>

DevicesNext ==
    \/ \E device \in DeviceInputs : RegisterDevice(device)
    \/ \E id \in DeviceIds, state \in DeviceStateInputs :
          DeviceStateStored(id, state)
    \/ \E filter \in FilterInputs : GetDeviceStates(filter)
    \/ \E uri \in UriInputs : ReadDeviceResource(uri)


(***************************************************************************)
(* Topic functions  (src/adapters/mqtt/mqtt-adapter.ts, matchTopic).       *)
(* For mapTopicToDeviceId a string is a sequence of pieces: "/", a blank,  *)
(* the word "state", and "a" for any other character.  For matchTopic a    *)
(* string is the sequence of its levels, as split('/') gives them.         *)
(***************************************************************************)
MaxBaseLen == 2       \* longest base handed to mapTopicToDeviceId
MaxTopicLen == 5      \* longest topic handed to mapTopicToDeviceId
MaxPatternLevels == 3 \* most levels of a pattern handed to matchTopic
MaxTopicLevels == 4   \* most levels of a topic handed to matchTopic

MIN_TOPIC_PARTS == 2
DEVICE_ID_OFFSET == 2

TopicPieces == {"a", "/", " ", "state"}

RECURSIVE PiecesUpTo(_, _)
PiecesUpTo(pieces, n) ==
    IF n = 0 THEN {<<>>}
    ELSE LET shorter == PiecesUpTo(pieces, n - 1)
         IN  shorter \cup {Append(s, c) : s \in shorter, c \in pieces}

\* String.prototype.split('/')
RECURSIVE SplitSlash(_, _, _)
SplitSlash(s, part, parts) ==
    IF s = <<>> THEN Append(parts, part)
    ELSE IF Head(s) = "/" THEN SplitSlash(Tail(s), <<>>, Append(parts, part))
    ELSE SplitSlash(Tail(s), Append(part, Head(s)), parts)

\* .replace(/\/+$/, '')
RECURSIVE StripTrailingSlashes(_)
StripTrailingSlashes(s) ==
    IF s # <<>> /\ s[Len(s)] = "/"
      THEN StripTrailingSlashes(SubSeq(s, 1, Len(s) - 1)) ELSE s

\* String.prototype.startsWith
StartsWith(s, prefix) ==
    Len(s) >= Len(prefix) /\ SubSeq(s, 1, Len(prefix)) = prefix

TopicResult(threw, found, id) == [threw |-> threw, found |-> found, id |-> id]
TopicNull == TopicResult("", FALSE, <<>>)
TopicIdle == TopicResult("idle", FALSE, <<>>)

\* validateTopicInputs: the message of the TypeError, or ""
ValidateTopicInputs(base, topic) ==
    IF Len(Trim(base)) = 0 THEN "base must be a non-empty string"
    ELSE IF Len(Trim(topic)) = 0 THEN "topic must be a non-empty string"
    ELSE ""

\* parts[parts.length - 1] !== 'state'
LastPartIsNotState_Never(parts) == FALSE
LastPartIsNotState(parts) == parts[Len(parts)] # <<"state">>

ExtractDeviceIdFromTopic(remainder) ==
    LET parts == SplitSlash(remainder, <<>>, <<>>)
    IN  IF Len(parts) < MIN_TOPIC_PARTS \/ LastPartIsNotState(parts)
          THEN TopicNull
        ELSE LET deviceId == parts[Len(parts) + 1 - DEVICE_ID_OFFSET]
             IN  IF Len(deviceId) = 0 THEN TopicNull
                 ELSE TopicResult("", TRUE, deviceId)

MapTopicToDeviceId(base, topic) ==
    IF ValidateTopicInputs(base, topic) # ""
      THEN TopicResult(ValidateTopicInputs(base, topic), FALSE, <<>>)
    ELSE LET normalizedBase == StripTrailingSlashes(Trim(base))
             normalizedTopic == Trim(topic)
             prefix == normalizedBase \o <<"/">>
         IN  IF ~StartsWith(normalizedTopic, prefix) THEN TopicNull
             ELSE ExtractDeviceIdFromTopic(
                     SubSeq(normalizedTopic, Len(prefix) + 1,
                            Len(normalizedTopic)))

MapTopicCall ==
    /\ tpOut = TopicIdle
    /\ tpOut' = MapTopicToDeviceId(tpBase, tpTopic)
    /\ UNCHANGED <<tpBase, tpTopic, mtPattern, mtTopic, mtOut>>

MapTopicNext == MapTopicCall

TopicLevels == {"a", "b", "+", "#"}

MatchResult(called, value) == [called |-> called, value |-> value]
MatchIdle == MatchResult(FALSE, FALSE)

MatchTopicCall ==
    /\ mtOut = MatchIdle
    /\ mtOut' = MatchResult(TRUE, MatchTopic(mtPattern, mtTopic))
    /\ UNCHANGED <<tpBase, tpTopic, tpOut, mtPattern, mtTopic>>

MatchTopicNext == MatchTopicCall

TpInit ==
    /\ tpBase = <<>> /\ tpTopic = <<>> /\ tpOut = TopicIdle
    /\ mtPattern = <<"a">> /\ mtTopic = <<"a">> /\ mtOut = MatchIdle


(***************************************************************************)
(* Event listeners of the MQTT client and the state emitter                *)
(* (setupClientListeners, restoreSubscriptions, createStateEmitter)        *)
(***************************************************************************)
MaxListeners == 2
MaxSubscribers == 2

\* a handler or callback: a function that returns or throws
Listeners == [id : 1..MaxListeners, throws : BOOLEAN]

\* what a listener call did: the handlers it invoked, in order, the native
\* subscribe it issued, the errors it wrote with console.error, and the
\* error that left the call ("" when it returned)
Dispatch(op, topic, issued, invoked, logged, error) ==
    [op |-> op, topic |-> topic, issued |-> issued, invoked |-> invoked,
     logged |-> logged, error |-> error]

DpInit ==
    /\ dpTable = <<>>
    /\ dpSubscribers = <<>>
    /\ dpLast = Dispatch("none", <<>>, <<>>, <<>>, <<>>, "")

\* subscriptions.set(topic, handler) in the callback of the native subscribe
ListenerTableSet(topic, handler) ==
    /\ TableSet(dpTable, topic, handler) # dpTable
    /\ dpTable' = TableSet(dpTable, topic, handler)
    /\ dpLast' = Dispatch("set", topic, <<>>, <<>>, <<>>, "")
    /\ UNCHANGED dpSubscribers

RECURSIVE InvokeAll_Uncaught(_)
\* the handlers called one after the other, each inside try/catch whose
\* catch writes the exception to the console: [invoked, logged, thrown]
InvokeAll_Uncaught(handlers) ==
    IF handlers = <<>> THEN [invoked |-> <<>>, logged |-> <<>>, thrown |-> ""]
    ELSE IF Head(handlers).throws
      THEN [invoked |-> <<Head(handlers)>>, logged |-> <<>>,
            thrown |-> "handler error"]
    ELSE LET rest == InvokeAll_Uncaught(Tail(handlers))
         IN  [rest EXCEPT !.invoked = <<Head(handlers)>> \o @]

RECURSIVE InvokeAll(_)
InvokeAll(handlers) ==
    IF handlers = <<>> THEN [invoked |-> <<>>, logged |-> <<>>, thrown |-> ""]
    ELSE LET rest == InvokeAll(Tail(handlers))
         IN  [rest EXCEPT
                !.invoked = <<Head(handlers)>> \o @,
                !.logged = (IF Head(handlers).throws
                              THEN <<Head(handlers).id>> ELSE <<>>) \o @]

\* mqttClient.on('message', ...): every entry of the table whose pattern
\* matches is called inside try/catch
MessageListener(topic) ==
    /\ LET done == InvokeAll(InvokedHandlers(dpTable, topic))
       IN  dpLast' = Dispatch("message", topic, <<>>, done.invoked,
                              done.logged, done.thrown)
    /\ UNCHANGED <<dpTable, dpSubscribers>>

\* mqttClient.on('reconnect', ...): restoreSubscriptions issues one native
\* subscribe; its callback writes a failure to the console
ReconnectListener(subscribeFails) ==
    /\ dpLast' = Dispatch("reconnect", <<>>, RestoreBatch(dpTable), <<>>,
          IF RestoreBatch(dpTable) # <<>> /\ subscribeFails
            THEN <<0>> ELSE <<>>,
          "")
    /\ UNCHANGED <<dpTable, dpSubscribers>>

\* Set.prototype.add
SetAdd(members, x) ==
    IF \E i \in 1..Len(members) : members[i] = x THEN members
    ELSE Append(members, x)

\* onDeviceStateChange(cb)
OnDeviceStateChange(isFunction, cb) ==
    /\ IF ~isFunction
         THEN /\ dpLast' = Dispatch("onDeviceStateChange", <<>>, <<>>, <<>>,
                                    <<>>, "Callback must be a function")
              /\ UNCHANGED dpSubscribers
         ELSE /\ Len(SetAdd(dpSubscribers, cb)) <= MaxSubscribers
              /\ dpSubscribers' = SetAdd(dpSubscribers, cb)
              /\ dpLast' = Dispatch("onDeviceStateChange", <<>>, <<>>, <<>>,
                                    <<>>, "")
    /\ UNCHANGED dpTable

\* emitState(deviceId, state)
EmitState(deviceId) ==
    /\ IF IsBlankTopic(deviceId)
         THEN dpLast' = Dispatch("emitState", deviceId, <<>>, <<>>, <<>>,
                                 "deviceId must be a non-empty string")
         ELSE LET done == InvokeAll(dpSubscribers)
              IN  dpLast' = Dispatch("emitState", deviceId, <<>>,
                                     done.invoked, done.logged, done.thrown)
    /\ UNCHANGED <<dpTable, dpSubscribers>>

DispatchNext ==
    \/ \E t \in SubTopics, h \in Listeners : ListenerTableSet(t, h)
    \/ \E t \in MsgTopics : MessageListener(t)
    \/ \E f \in BOOLEAN : ReconnectListener(f)
    \/ \E f \in BOOLEAN, cb \in Listeners : OnDeviceStateChange(f, cb)
    \/ \E id \in {<<"lamp">>, BlankTopic} : EmitState(id)


Init == QInit /\ RInit /\ MInit /\ MgInit /\ StInit /\ RegInit /\ DrInit /\ BrInit /\ DmInit /\ TpInit /\ DpInit

InitMerge == QInit /\ RInit /\ MInit /\ MergeInputs /\ StInit /\ RegInit /\ DrInit /\ BrInit /\ DmInit /\ TpInit /\ DpInit

InitStore ==
    /\ QInit /\ RInit /\ MInit /\ MgInit /\ RegInit /\ DrInit /\ BrInit /\ DmInit /\ TpInit /\ DpInit
    /\ stKind \in {"memory", "json"}
    /\ stData = [k \in StoreKeys |-> Absent]
    /\ stCalls = <<>>
    /\ stApplied = <<>>
    /\ stPatched = [k \in StoreKeys |-> Absent]
    /\ stLast = NoLast
    /\ \E created \in IF stKind = "json" THEN JsonStores
                                           ELSE {<<AbsentFile, TRUE>>} :
          /\ jFile = created[1]
          /\ jAtomic = created[2]
    /\ jInit = "none"
    /\ jWaiting = <<>>

SpecQueue == Init /\ [][QueueNext /\ UNCHANGED <<retryVars, mqttVars, mergeVars, storeVars, registryVars, drainVars, brokerVars, deviceVars, topicVars, dispatchVars>>]_vars

SpecRetry == Init /\ [][RetryNext /\ UNCHANGED <<queueVars, mqttVars, mergeVars, storeVars, registryVars, drainVars, brokerVars, deviceVars, topicVars, dispatchVars>>]_vars

SpecMqtt == Init /\ [][MqttNext /\ UNCHANGED <<queueVars, retryVars, mergeVars, storeVars, registryVars, drainVars, brokerVars, deviceVars, topicVars, dispatchVars>>]_vars

SpecMerge == InitMerge /\ [][MergeNext /\ UNCHANGED <<queueVars, retryVars, mqttVars, storeVars, registryVars, drainVars, brokerVars, deviceVars, topicVars, dispatchVars>>]_vars

SpecStore ==
    InitStore /\ [][StoreNext /\ UNCHANGED <<queueVars, retryVars, mqttVars,
                      mgPrev, mgPatch, mgPc, mgResult, mgGiven, registryVars, drainVars, brokerVars, deviceVars, topicVars, dispatchVars>>]_vars

SpecRegistry ==
    Init /\ [][RegistryNext /\ UNCHANGED <<queueVars, retryVars, mqttVars,
                  mergeVars, storeVars, drainVars, brokerVars, deviceVars, topicVars, dispatchVars>>]_vars

InitDrain ==
    /\ QInit /\ RInit /\ MInit /\ MgInit /\ StInit /\ RegInit /\ BrInit /\ DmInit /\ TpInit /\ DpInit
    /\ dQueue = <<>>
    /\ dPc = "loop"
    /\ dRetries \in DrainRetries
    /\ dCmd = Undefined
    /\ dAttempt = 0
    /\ dTrace = <<>>

SpecDrain ==
    InitDrain /\ [][DrainNext /\ UNCHANGED <<queueVars, retryVars, mqttVars,
                       mergeVars, storeVars, registryVars, brokerVars, deviceVars, topicVars, dispatchVars>>]_vars

IsStartSettled(e) == e.ev \in {"startDone", "startFailed"}

\* the answers of testPort are for the ports startPort, startPort+1, ... in
\* this order, and none is 'free' for a port that another process holds
ProbedInOrder(probed) ==
    /\ Len(probed) <= MAX_PORT_ATTEMPTS
    /\ \A i \in 1..Len(probed) :
         /\ probed[i].port = bStartPort + i - 1
         /\ probed[i].port \in bForeign => ~probed[i].free

AllBusy(probed) == \A i \in 1..Len(probed) : ~probed[i].free

\* C22: start() probes startPort, startPort+1, ... one at a time and opens
\* the listener on the first port found free: the lowest port of the ten
\* that was free when probed, every lower one having been busy when probed;
\* when all ten were busy start() rejects and the broker stays as it was.
BrokerBindsFirstFreePort ==
    /\ \A c \in bCalls : c.op = "start" =>
          /\ ProbedInOrder(c.probed)
          /\ Len(c.probed) = IF c.pc = "listen" THEN c.i + 1 ELSE c.i
          /\ AllBusy(SubSeq(c.probed, 1, c.i))
          /\ c.pc = "listen" =>
                c.probed[c.i + 1].free /\ c.port = c.probed[c.i + 1].port
    /\ \A n \in 1..Len(bTrace) : IsStartSettled(bTrace[n]) =>
          LET pr == bTrace[n].probed IN
          /\ ProbedInOrder(pr) /\ Len(pr) >= 1
          /\ AllBusy(SubSeq(pr, 1, Len(pr) - 1))
          /\ bTrace[n].ev = "startDone" =>
                /\ pr[Len(pr)].free
                /\ bTrace[n].port = pr[Len(pr)].port
                /\ n = Len(bTrace) =>
                      /\ [id |-> bTrace[n].id, port |-> bTrace[n].port] \in bLive
                      /\ GetPort = bTrace[n].port
          /\ AllBusy(pr) =>
                /\ Len(pr) = MAX_PORT_ATTEMPTS
                /\ bTrace[n].ev = "startFailed"
                /\ n = Len(bTrace) => isStarted = bTrace[n].started

\* the first two ports of the range were held by others: the broker is
\* started on the third after three probes
BrokerFirstFreeWitness ==
    /\ bForeign = {bStartPort, bStartPort + 1}
    /\ Len(bTrace) = 2
    /\ bTrace[2].ev = "startDone"
    /\ Len(bTrace[2].probed) = 3
    /\ GetPort = bStartPort + 2

\* all ten ports were held by others: start() rejected after ten probes
BrokerNoPortReached ==
    /\ Len(bTrace) = 2
    /\ bTrace[2].ev = "startFailed"
    /\ Len(bTrace[2].probed) = MAX_PORT_ATTEMPTS
    /\ ~isStarted /\ bLive = {}

IsStopCall(e) == e.ev \in {"stop", "stopNoop"}
IsBrokerCall(e) == IsStartCall(e) \/ IsStopCall(e)

\* the broker is started: a start() has resolved and no stop() has been
\* accepted since
BrokerUp ==
    \E n \in 1..Len(bTrace) :
       /\ bTrace[n].ev = "startDone"
       /\ \A k \in (n + 1)..Len(bTrace) : bTrace[k].ev # "stop"

BrokerStopWhileDown ==
    (/\ ~BrokerUp
     /\ Len(bTrace') = Len(bTrace) + 1
     /\ IsStopCall(bTrace'[Len(bTrace')]))
    => /\ bTrace'[Len(bTrace')].ev = "stopNoop"
       /\ UNCHANGED <<isStarted, bState, bLive, bCalls>>

\* the start() that resolved at event n ran on its own: it was called at
\* event s with no call under way and no call was made before it resolved
StartRanAlone(s, n) ==
    /\ s < n
    /\ bTrace[s].ev = "start" /\ bTrace[s].id = bTrace[n].id
    /\ bTrace[s].inFlight = {}
    /\ \A k \in (s + 1)..(n - 1) : ~IsBrokerCall(bTrace[k])

\* the events after n up to the next start() call
RECURSIVE UntilNextStart(_)
UntilNextStart(n) ==
    IF n >= Len(bTrace) \/ IsStartCall(bTrace[n + 1]) THEN n
    ELSE UntilNextStart(n + 1)

StopsAfter(n) == {k \in (n + 1)..UntilNextStart(n) : IsStopCall(bTrace[k])}

BrokerStopsCloseOnce ==
    \A n \in 1..Len(bTrace) :
      (/\ bTrace[n].ev = "startDone"
       /\ \E s \in 1..n : StartRanAlone(s, n))
      => LET stops == StopsAfter(n)
             last == UntilNextStart(n)
         IN  /\ \A k \in stops :
                   bTrace[k].ev = "stop" <=> (\A j \in stops : j >= k)
             /\ Cardinality({k \in stops : bTrace[k].ev = "stop"}) <= 1
             \* once the accepted stop() has resolved the listener is closed
             /\ (/\ last = Len(bTrace)
                 /\ \E k \in stops : bTrace[k].ev = "stopDone") =>
                   /\ \A l \in bLive : l.id # bTrace[n].id
                   /\ GetPort = BrokerNotStarted
                   /\ GetConnectionUrl.threw
             \* and from its call on getPort() and getConnectionUrl() throw
             /\ (last = Len(bTrace) /\ stops # {}) =>
                   GetPort = BrokerNotStarted /\ GetConnectionUrl.threw

\* C21: stop() on a broker that is not started (never started, start()
\* failed, or already stopped) resolves at once and changes nothing; after a
\* start() that resolved, of any number of stop() calls the first closes the
\* listener and the others do nothing, and from then on getPort() and
\* getConnectionUrl() throw 'Broker not started yet'.
BrokerStopIsIdempotent ==
    /\ [][BrokerStopWhileDown]_vars
    /\ []BrokerStopsCloseOnce

\* stop() did nothing on a broker never started; the broker was then
\* started, the first stop() closed its listener and the next did nothing
BrokerStopWitness ==
    /\ Len(bTrace) = 6
    /\ bTrace[1].ev = "stopNoop"
    /\ bTrace[2].ev = "start" /\ bTrace[3].ev = "startDone"
    /\ bTrace[4].ev = "stop" /\ bTrace[5].ev = "stopDone"
    /\ bTrace[6].ev = "stopNoop"
    /\ bLive = {} /\ bCalls = {}
    /\ GetPort = BrokerNotStarted

InitBroker ==
    /\ QInit /\ RInit /\ MInit /\ MgInit /\ StInit /\ RegInit /\ DrInit /\ DmInit /\ TpInit /\ DpInit
    /\ isStarted = FALSE
    /\ bState = NullState
    /\ bLive = {}
    /\ \E setup \in BrokerSetups :
          bStartPort = setup.startPort /\ bForeign = setup.foreign
    /\ bCalls = {}
    /\ bNextId = 1
    /\ bTrace = <<>>

SpecBroker ==
    InitBroker /\ [][BrokerNext /\ UNCHANGED <<queueVars, retryVars, mqttVars,
                        mergeVars, storeVars, registryVars, drainVars, deviceVars, topicVars, dispatchVars>>]_vars

(***************************************************************************)
(* Claims about the device manager.                                        *)
(***************************************************************************)
IsListing(l) == l.op = "getDeviceStates"
IsRead(l) == l.op = "readDeviceResource"

\* what a caller compares of a view
ViewShown(view) == [uri |-> view.uri, name |-> view.name, text |-> view.text]

\* the view of a registered device: its URI, its name, and the JSON of the
\* state the store holds for it, '{}' when it holds none
ListedView(device) ==
    [uri |-> DeviceUri(device).uri, name |-> device.friendlyName,
     text |-> IF dmStates[device.id] = Absent THEN EmptyObjectText
              ELSE Jsonify(dmStates[device.id], Literals)]

ExpectedListing(filter) ==
    LET Kept(device) ==
            ~filter.given \/ filter.text = <<>>
            \/ Includes(DeviceUri(device).uri, filter.text)
        kept == SelectSeq(devices, Kept)
    IN  [i \in 1..Len(kept) |-> ListedView(kept[i])]

ListingIsExpected ==
    /\ dmLast'.err = ""
    /\ [i \in 1..Len(dmLast'.ret) |-> ViewShown(dmLast'.ret[i])]
          = ExpectedListing(dmLast'.filter)

DeviceStatesListedStep ==
    (dmLast' # dmLast /\ IsListing(dmLast')) => ListingIsExpected

\* C27: for any devices accepted by registerDevice, getDeviceStates()
\* returns one view per registered device, in registration order, whose
\* text is the JSON of the stored state or '{}' when there is none; with a
\* non-empty filter, those of these views whose URI contains the filter.
DeviceStatesListEveryDevice == [][DeviceStatesListedStep]_vars

\* every registered device has a location and a name that
\* buildDeviceResourceUri accepts, and no stored state is a falsy value
DevicesRenderable ==
    /\ FirstUriError(devices) = ""
    /\ \A id \in DeviceIds : dmStates[id] = Absent \/ IsTruthyState(dmStates[id])

DeviceStatesListedWhenRenderable ==
    [][(dmLast' # dmLast /\ IsListing(dmLast') /\ DevicesRenderable)
       => ListingIsExpected]_vars

\* a listing of two devices, the second with a stored state
DeviceStatesListedWitness ==
    /\ IsListing(dmLast) /\ dmLast.err = ""
    /\ Len(devices) = 2 /\ Len(dmLast.ret) = 2
    /\ dmLast.ret[1].text = EmptyObjectText
    /\ dmLast.ret[2].text # EmptyObjectText
    /\ dmLast.ret[1].name = devices[1].friendlyName
    /\ dmLast.ret[2].name = devices[2].friendlyName

\* the registered devices whose canonical URI is uri
DevicesAtIn(devs, uri) ==
    {i \in 1..Len(devs) :
        DeviceUri(devs[i]).err = "" /\ DeviceUri(devs[i]).uri = uri}

DevicesAt(uri) == DevicesAtIn(devices, uri)

\* the call gave a view with the URI asked for and with the name and the
\* text that getDeviceStates lists for the device
ReadGaveViewOf(device) ==
    /\ dmLast'.err = ""
    /\ Len(dmLast'.ret) = 1
    /\ dmLast'.ret[1].uri = dmLast'.uri
    /\ dmLast'.ret[1].name = device.friendlyName
    /\ dmLast'.ret[1].text = ResourceText(dmStates[device.id])

ReadGaveUndefined == dmLast'.err = "" /\ dmLast'.ret = <<>>

IsReadStep == dmLast' # dmLast /\ IsRead(dmLast')

ReadInvertsUriStep ==
    IsReadStep
    => /\ \A i \in DevicesAt(dmLast'.uri) : ReadGaveViewOf(devices[i])
       /\ DevicesAt(dmLast'.uri) = {} => ReadGaveUndefined

FirstAtIn(devs, uri) ==
    CHOOSE i \in DevicesAtIn(devs, uri) : \A j \in DevicesAtIn(devs, uri) : i <= j

FirstAt(uri) == FirstAtIn(devices, uri)

ReadInvertsUriOfFirstStep ==
    (IsReadStep /\ FirstUriError(devices) = "")
    => /\ DevicesAt(dmLast'.uri) # {}
          => ReadGaveViewOf(devices[FirstAt(dmLast'.uri)])
       /\ DevicesAt(dmLast'.uri) = {} => ReadGaveUndefined

IsRegisterStep ==
    /\ dmLast' # dmLast
    /\ dmLast'.op = "registerDevice"
    /\ ~InvalidDeviceId(dmLast'.device.id)

LastAt(uri) == CHOOSE i \in DevicesAt(uri) : \A j \in DevicesAt(uri) : j <= i

IsKnownId(id) == \E i \in 1..Len(devices) : devices[i].id = id

\* the URI of the device that is being registered is that of a device
\* registered before under another id
RegisteredUriIsTaken ==
    /\ ~IsKnownId(dmLast'.device.id)
    /\ DeviceUri(dmLast'.device).err = ""
    /\ DevicesAt(DeviceUri(dmLast'.device).uri) # {}

\* the registration succeeds and the device is in the directory; the device
\* that was found under the URI before is still the one found
CollidingRegistrationStep ==
    (IsRegisterStep /\ RegisteredUriIsTaken)
    => LET uri == DeviceUri(dmLast'.device).uri
       IN  /\ dmLast'.err = ""
           /\ \E i \in DevicesAtIn(devices', uri) : devices'[i] = dmLast'.device
           /\ Cardinality(DevicesAtIn(devices', uri)) > 1
           /\ devices'[FirstAtIn(devices', uri)] = devices[FirstAt(uri)]

IsCollidingRead ==
    /\ IsReadStep
    /\ FirstUriError(devices) = ""
    /\ Cardinality(DevicesAt(dmLast'.uri)) > 1

RECURSIVE SplitWords(_, _, _)
SplitWords(s, word, words) ==
    IF s = <<>> THEN (IF word = <<>> THEN words ELSE Append(words, word))
    ELSE IF IsSlugChar(Head(s))
      THEN SplitWords(Tail(s), Append(word, Head(s)), words)
    ELSE SplitWords(Tail(s), <<>>,
                    IF word = <<>> THEN words ELSE Append(words, word))

Words(text) == SplitWords(ToLowerCase(Trim(text)), <<>>, <<>>)

\* the words joined by single hyphens
RECURSIVE JoinWords(_)
JoinWords(words) ==
    IF words = <<>> THEN <<>>
    ELSE IF Len(words) = 1 THEN words[1]
    ELSE words[1] \o <<"-">> \o JoinWords(Tail(words))

UriAccepted == uriOut # UriIdle /\ uriOut.err = ""

\* iot://home/<location-slug>/<name-slug>/state with the slugs described
UriIsOfSlugs ==
    uriOut.uri = UriOf(JoinWords(Words(uriIn.location)),
                       JoinWords(Words(uriIn.friendlyName)))

\* a location with the same words gives the same URI
UriIgnoresSeparators ==
    \A other \in TextsUpTo(MaxTextLen) :
        (Words(other) = Words(uriIn.location) /\ Words(other) # <<>>)
        => BuildDeviceResourceUri(UriInput(other, uriIn.friendlyName)) = uriOut

SlugsAreNonEmpty ==
    Words(uriIn.location) # <<>> /\ Words(uriIn.friendlyName) # <<>>

\* C30: for every location and friendly name that buildDeviceResourceUri
\* accepts, the result is iot://home/<location-slug>/<name-slug>/state,
\* where each slug is non-empty and is the trimmed input lower-cased with
\* every run of other characters collapsed into one '-', with no '-' at
\* its ends; inputs that differ only in case, surrounding whitespace or
\* separators give the same URI.
UriHasCanonicalShape ==
    UriAccepted => UriIsOfSlugs /\ SlugsAreNonEmpty /\ UriIgnoresSeparators

\* the same without the slugs being non-empty
UriHasShapeOfWords ==
    UriAccepted => UriIsOfSlugs /\ UriIgnoresSeparators

\* an accepted location whose slug is empty
UriEmptySlugReached ==
    /\ UriAccepted
    /\ Words(uriIn.location) = <<>>
    /\ uriOut.uri = UriOf(<<>>, JoinWords(Words(uriIn.friendlyName)))

OtherThanDevices ==
    <<queueVars, retryVars, mqttVars, mergeVars, storeVars, registryVars,
      drainVars, brokerVars, topicVars, dispatchVars>>

SpecDevices == Init /\ [][DevicesNext /\ UNCHANGED OtherThanDevices]_vars

InitUri ==
    /\ QInit /\ RInit /\ MInit /\ MgInit /\ StInit /\ RegInit /\ DrInit /\ BrInit /\ TpInit /\ DpInit
    /\ devices = <<>>
    /\ dmStates = [id \in DeviceIds |-> Absent]
    /\ dmCalls = 0
    /\ dmLast = NoDmLast
    /\ \E location \in TextsUpTo(MaxTextLen), friendlyName \in NameSamples :
          uriIn = UriInput(location, friendlyName)
    /\ uriOut = UriIdle

SpecUri == InitUri /\ [][UriNext /\ UNCHANGED OtherThanDevices]_vars

(***************************************************************************)
(* Claims about mapTopicToDeviceId.                                        *)
(***************************************************************************)
TopicCalled == tpOut # TopicIdle /\ Len(Trim(tpBase)) > 0 /\ Len(Trim(tpTopic)) > 0

\* the trimmed base without its trailing slashes, followed by '/'
ExpectedPrefix == StripTrailingSlashes(Trim(tpBase)) \o <<"/">>

\* what follows the prefix in the trimmed topic
Remainder ==
    SubSeq(Trim(tpTopic), Len(ExpectedPrefix) + 1, Len(Trim(tpTopic)))

\* the text after the last '/' of a text
LastSegment(text) ==
    LET n == CHOOSE k \in 0..Len(text) :
                /\ \A i \in (Len(text) - k + 1)..Len(text) : text[i] # "/"
                /\ k = Len(text) \/ text[Len(text) - k] = "/"
    IN  SubSeq(text, Len(text) - n + 1, Len(text))

\* the remainder ends with '/state' and the segment before that is not empty
HasDeviceId ==
    /\ StartsWith(Trim(tpTopic), ExpectedPrefix)
    /\ Len(Remainder) >= 2
    /\ Remainder[Len(Remainder)] = "state"
    /\ Remainder[Len(Remainder) - 1] = "/"
    /\ LastSegment(SubSeq(Remainder, 1, Len(Remainder) - 2)) # <<>>

MapsTopicAsDescribed ==
    IF HasDeviceId
      THEN tpOut = TopicResult("", TRUE,
                      LastSegment(SubSeq(Remainder, 1, Len(Remainder) - 2)))
      ELSE tpOut = TopicNull

DeviceIds32 == PiecesUpTo({"a", " ", "state"}, 2) \ {<<>>}

HasNoTrailingBlank(text) == text[Len(text)] # " "

\* C32 as the specification states it: the id is returned if and only if
\* the trimmed topic is the normalized base, '/', and a remainder of at
\* least two segments ending in 'state' with a non-empty segment before
\* it, null in every other case; and base + '/' + id + '/state' maps back
\* to id for every non-empty slash-free id.
TopicMapsBackForEveryBase ==
    TopicCalled =>
       /\ MapsTopicAsDescribed
       /\ \A id \in DeviceIds32 :
             MapTopicToDeviceId(tpBase, tpBase \o <<"/">> \o id \o <<"/", "state">>)
               = TopicResult("", TRUE, id)

\* C32: the same, with the round trip for the bases that do not end in
\* whitespace.
TopicMapsBackForTrimmedBase ==
    TopicCalled =>
       /\ MapsTopicAsDescribed
       /\ HasNoTrailingBlank(tpBase) =>
             \A id \in DeviceIds32 :
                MapTopicToDeviceId(tpBase, tpBase \o <<"/">> \o id \o <<"/", "state">>)
                  = TopicResult("", TRUE, id)

\* the id of a two-level remainder under a base given with a trailing slash
TopicMapsWitness ==
    /\ tpOut = TopicResult("", TRUE, <<"a">>)
    /\ tpBase = <<"a", "/">>
    /\ tpTopic = <<"a", "/", "a", "/", "state">>

(***************************************************************************)
(* Claims about matchTopic.                                                *)
(***************************************************************************)
LevelsAgree(pattern, topic, n) ==
    \A i \in 1..n : pattern[i] = "+" \/ pattern[i] = topic[i]

MatchesAsDescribed(pattern, topic) ==
    \/ pattern = topic
    \/ /\ pattern[Len(pattern)] = "#"
       /\ Len(topic) >= Len(pattern) - 1
       /\ LevelsAgree(pattern, topic, Len(pattern) - 1)
    \/ /\ pattern[Len(pattern)] # "#"
       /\ Len(pattern) = Len(topic)
       /\ LevelsAgree(pattern, topic, Len(pattern))

\* C33: matchTopic(pattern, topic) is true if and only if pattern equals
\* topic, or pattern ends in '#' and topic has at least the levels before
\* the '#', each of them '+' or equal to the topic's, or pattern has no
\* trailing '#', as many levels as topic, each '+' or equal.
MatchTopicIsAsDescribed ==
    mtOut.called => (mtOut.value <=> MatchesAsDescribed(mtPattern, mtTopic))

\* a/# matched a topic of four levels
MatchTopicWitness ==
    /\ mtOut = MatchResult(TRUE, TRUE)
    /\ mtPattern = <<"a", "#">>
    /\ mtTopic = <<"a", "b", "a", "b">>

\* a/+/b did not match a topic of four levels
MatchTopicPlusIsOneLevel ==
    /\ mtOut = MatchResult(TRUE, FALSE)
    /\ mtPattern = <<"a", "+", "b">>
    /\ mtTopic = <<"a", "a", "b", "b">>

OtherThanTopics ==
    <<queueVars, retryVars, mqttVars, mergeVars, storeVars, registryVars,
      drainVars, brokerVars, deviceVars, dispatchVars>>

InitMapTopic ==
    /\ QInit /\ RInit /\ MInit /\ MgInit /\ StInit /\ RegInit /\ DrInit /\ BrInit /\ DmInit /\ DpInit
    /\ tpBase \in PiecesUpTo(TopicPieces, MaxBaseLen)
    /\ tpTopic \in PiecesUpTo(TopicPieces, MaxTopicLen)
    /\ tpOut = TopicIdle
    /\ mtPattern = <<"a">> /\ mtTopic = <<"a">> /\ mtOut = MatchIdle

SpecMapTopic == InitMapTopic /\ [][MapTopicNext /\ UNCHANGED OtherThanTopics]_vars

InitMatchTopic ==
    /\ QInit /\ RInit /\ MInit /\ MgInit /\ StInit /\ RegInit /\ DrInit /\ BrInit /\ DmInit /\ DpInit
    /\ tpBase = <<>> /\ tpTopic = <<>> /\ tpOut = TopicIdle
    /\ mtPattern \in PiecesUpTo(TopicLevels, MaxPatternLevels) \ {<<>>}
    /\ mtTopic \in PiecesUpTo(TopicLevels, MaxTopicLevels) \ {<<>>}
    /\ mtOut = MatchIdle

SpecMatchTopic ==
    InitMatchTopic /\ [][MatchTopicNext /\ UNCHANGED OtherThanTopics]_vars

(***************************************************************************)
(* Claims about failed writes and the lazy load of the JSON file store.    *)
(***************************************************************************)
\* the write of call i fails in this step
WriteFailsStep(i) ==
    /\ stCalls[i].pc \in {"write", "rename", "truncated"}
    /\ stCalls'[i].pc = "rejected"

\* the write of call j ends well in this step
WriteSucceedsStep(j) ==
    /\ stCalls[j].pc \in {"rename", "truncated"}
    /\ stCalls'[j].pc = "resolved"

\* call i changed the mirror and was then rejected
PersistRejected(i) ==
    /\ stCalls[i].pc = "rejected"
    /\ \E n \in 1..Len(stApplied) : stApplied[n].call = i

\* the rejection names the path and wraps the failure, and the mirror is
\* left as the call changed it
WriteFailureRejectsKeepingMirror ==
    \A i \in 1..Len(stCalls) :
      WriteFailsStep(i) =>
        /\ stCalls'[i].err.name = "Error"
        /\ \E n \in 1..Len(stCalls'[i].err.message) :
              stCalls'[i].err.message[n] = FilePath
        /\ stCalls'[i].err.cause = WriteFailure
        /\ stCalls'[i].err.cause # ""
        /\ stData' = stData /\ heap' = heap

\* get and keys answer from the mirror, which holds the value of a call
\* whose write failed until a later call changes the key
MirrorHoldsUnpersisted ==
    \A i \in 1..Len(stCalls) :
      (PersistRejected(i) /\ LatestOnKey(i)) =>
        /\ StoreGet(stData, stCalls[i].key) = stCalls[i].val
        /\ stCalls[i].key \in StoreKeysOf(stData)

\* no call changed the key of call i after call i and up to call j
KeyUntouchedBetween(i, j) ==
    /\ AppliedAt(i) < AppliedAt(j)
    /\ \A n \in (AppliedAt(i) + 1)..AppliedAt(j) :
          stApplied[n].key # stCalls[i].key

\* a later call whose write ends well leaves the unpersisted value in the
\* file
LaterWritePersists ==
    \A i, j \in 1..Len(stCalls) :
      (/\ WriteSucceedsStep(j)
       /\ PersistRejected(i)
       /\ KeyUntouchedBetween(i, j)
       /\ jFile'.state = "complete")
      => jFile'.doc[stCalls[i].key] = Jsonify(stCalls[i].val, heap)

\* C39: a set or patch of the JSON store whose file write fails rejects with
\* an error that names the file path and has the failure as cause; the
\* mirror keeps the new value, get and keys return it, and the next set or
\* patch of another key whose write succeeds puts it into the file
JsonWriteFailureKeepsMirror ==
    /\ [][stKind = "json" =>
            WriteFailureRejectsKeepingMirror /\ LaterWritePersists]_vars
    /\ [](stKind = "json" => MirrorHoldsUnpersisted)

\* the write of a first call failed, its value is served from the mirror,
\* and a second call on another key, made afterwards, wrote both values
JsonWriteFailureWitness ==
    /\ stKind = "json"
    /\ Len(stCalls) = 2
    /\ PersistRejected(1) /\ stCalls[1].err = PersistError(WriteFailure)
    /\ stCalls[2].pc = "resolved" /\ ~stCalls[2].overlapped
    /\ stCalls[1].key # stCalls[2].key
    /\ StoreGet(stData, stCalls[1].key) = stCalls[1].val
    /\ jFile.state = "complete"
    /\ jFile.doc[stCalls[1].key] = Jsonify(stCalls[1].val, heap)
    /\ jFile.doc[stCalls[1].key] # JAbsent

\* initPromise is created by the first call and settles once
LoadStartsOnceAndSettlesOnce ==
    /\ jInit' = "loading" /\ jInit # "loading"
          => jInit = "none" /\ stCalls = <<>> /\ Len(stCalls') = 1
    /\ jInit \in {"ready", "failed"} => jInit' = jInit
    /\ jInit = "loading" => jInit' # "none"
    /\ jInit = "failed" => jFile' = jFile /\ stData' = stData

\* until the load has ended every call waits and the mirror is untouched
CallsWaitForLoad ==
    jInit \in {"none", "loading"} =>
        /\ \A i \in 1..Len(stCalls) : stCalls[i].pc = "init"
        /\ stApplied = <<>>
        /\ stData = [k \in StoreKeys |-> Absent]

\* after a failed load every call that went on was rejected with the one
\* remembered error, and nothing was applied
FailedLoadRejectsAll ==
    jInit = "failed" =>
        /\ \A i \in 1..Len(stCalls) :
              /\ stCalls[i].pc \in {"init", "rejected"}
              /\ stCalls[i].pc = "rejected" =>
                    /\ stCalls[i].err = InitError(jFile)
                    /\ stCalls[i].err # NoError
        /\ stApplied = <<>>
        /\ stLast.op = "get" => stLast.err = InitError(jFile).message[1]

JsonSharedLoadWitness ==
    /\ stKind = "json" /\ jInit = "ready"
    /\ Len(stCalls) = 2 /\ stCalls[2].overlapped
    /\ Len(stApplied) >= 2
    /\ \A i \in {1, 2} : stCalls[i].pc = "resolved"

(***************************************************************************)
(* Claims about the listeners of the embedded broker.                      *)
(***************************************************************************)
\* the listener the state of the broker records
RecordedListener == [id |-> bState.server, port |-> bState.actualPort]

\* C36: whenever getPort() and getConnectionUrl() return instead of
\* throwing, the port they report is positive and is the port of the live
\* listener recorded in the state, the one the next stop() closes
ReportedPortIsOfLiveListener ==
    isStarted => /\ GetPort > 0
                 /\ ~StopReturnsEarly(isStarted, bState)
                 /\ RecordedListener \in bLive

\* C37: the broker never has more than one live listener, and every live
\* listener it opened is the one recorded in its state
BrokerOwnsAtMostOneListener ==
    /\ Cardinality(bLive) <= 1
    /\ \A l \in bLive : l = RecordedListener

(***************************************************************************)
(* Claims about the native sessions of the MQTT client wrapper.            *)
(***************************************************************************)
\* a native client that was created and whose end() has not completed
NotEnded(c) == nState[c] \notin {"unused", "ended"}

\* C35: the wrapper never has more than one native session that has not
\* been ended, whatever connect()/disconnect() calls and transport events
\* overlap
AtMostOneNativeSession ==
    Cardinality({c \in Sessions : NotEnded(c)}) <= 1

\* two native sessions are connected at once; a message on either reaches
\* the handlers of the one table
TwoSessionsDeliver ==
    \E a, b \in Sessions : a # b /\ NativeConnected(nState[a])
                                  /\ NativeConnected(nState[b])

\* connect() while the current session is connected rejects and creates
\* no native client
ConnectWhileConnectedCreatesNothing ==
    [][(mLast' # mLast /\ mLast'.ev = "connect"
        /\ mCurrent # 0 /\ NativeConnected(nState[mCurrent]))
       => /\ mLast'.result = "MQTT client is already connected"
          /\ nState' = nState /\ mCurrent' = mCurrent]_vars

(***************************************************************************)
(* Claims about the event listeners and the state emitter.                 *)
(***************************************************************************)
\* C34: no failure inside a listener or an emitter call is only written to
\* the console and then dropped: when a re-assertion of subscriptions fails,
\* or a message handler or state-change callback throws, the call ends with
\* an error
NoErrorIsLoggedAndDropped ==
    dpLast.logged # <<>> => dpLast.error # ""

\* the entries of the table whose pattern matches the topic, in table order
MatchingHandlers(table, topic) ==
    LET entries == SelectSeq(table, LAMBDA e : MatchTopic(e.topic, topic))
    IN  [i \in 1..Len(entries) |-> entries[i].handler]

IsMessageStep == dpLast' # dpLast /\ dpLast'.op = "message"

\* C38: for a delivered message the handlers invoked are exactly those of
\* the table entries whose pattern matches the topic, once per entry and in
\* insertion order, whether or not one of them throws
MessageReachesEveryMatchingHandler ==
    [][IsMessageStep =>
         dpLast'.invoked = MatchingHandlers(dpTable, dpLast'.topic)]_vars

\* a message whose first matching handler threw and whose second matching
\* handler was still called, while the table holds no other entry
MessageAfterThrowWitness ==
    /\ dpLast.op = "message"
    /\ Len(dpLast.invoked) = 2
    /\ dpLast.invoked[1].throws
    /\ dpLast.logged = <<dpLast.invoked[1].id>>
    /\ Len(dpTable) = 2

OtherThanDispatch ==
    <<queueVars, retryVars, mqttVars, mergeVars, storeVars, registryVars,
      drainVars, brokerVars, deviceVars, topicVars>>

InitDispatch ==
    /\ QInit /\ RInit /\ MInit /\ MgInit /\ StInit /\ RegInit /\ DrInit /\ BrInit /\ DmInit /\ TpInit
    /\ DpInit

SpecDispatch == InitDispatch /\ [][DispatchNext /\ UNCHANGED OtherThanDispatch]_vars

====
